---- MODULE Spec2Model ----
(***************************************************************************)
(* Model of the econstats query router (routing/router.py), its routing    *)
(* cache (cache/cache_manager.py), the plan registry lookup                *)
(* (registry/series_registry.py) and the deterministic validation layer.   *)
(* Text is modelled as TLA+ strings; characters are strings of length 1.   *)
(***************************************************************************)
EXTENDS Integers, Sequences, FiniteSets, TLC

VARIABLES
    plans,          \* registry._plans: plan id -> plan dict (series list is a shared object)
    cache,          \* cache_manager._routing._cache: OrderedDict as a sequence of entries
    catalog_built,  \* QueryRouter._catalog_built
    env,            \* which optional modules / credentials were found at construction
    pc,             \* position of the current route() call
    query,          \* argument of the current route() call
    result,         \* the local `result` of route()
    sref,           \* plan id whose series list object result.series is, or NoRef
    stage,          \* the stage that resolved `result`
    llm_result,     \* the local `llm_result` of route()
    calls,          \* collaborators invoked so far by the current route() call
    ret,            \* what the current route() call returned or raised
    nreq,           \* number of route() calls started
    vin,            \* input of the operation under test (pure-function specifications)
    vout,           \* its output
    vpc             \* "in" before the operation is applied, "out" after

rvars == <<plans, cache, catalog_built, env, pc, query, result, sref, stage,
           llm_result, calls, ret, nreq>>
hvars == <<vin, vout, vpc>>
vars == <<plans, cache, catalog_built, env, pc, query, result, sref, stage,
          llm_result, calls, ret, nreq, vin, vout, vpc>>

-----------------------------------------------------------------------------
(* Bounds *)

MaxRequests == 2

-----------------------------------------------------------------------------
(* Text helpers: the str and re operations the code uses *)

Range(s) == {s[i] : i \in 1..Len(s)}

UpperChars == "ABCDEFGHIJKLMNOPQRSTUVWXYZ"
LowerChars == "abcdefghijklmnopqrstuvwxyz"
DigitChars == "0123456789_"

CharAt(s, i) == SubSeq(s, i, i)

CharsOf(s) == {CharAt(s, i) : i \in 1..Len(s)}

UpperSet == CharsOf(UpperChars)
LowerSet == CharsOf(LowerChars)
WordSet == CharsOf(UpperChars) \cup CharsOf(LowerChars) \cup CharsOf(DigitChars)

\* \w of the re module, restricted to ASCII
IsWordChar(c) == c \in WordSet

\* \s of the re module and str.strip()/str.split() whitespace
IsSpace(c) == c \in {" ", "\n", "\t"}

LowerChar(c) ==
    IF c \in UpperSet
    THEN CharAt(LowerChars, CHOOSE i \in 1..26 : CharAt(UpperChars, i) = c)
    ELSE c

UpperChar(c) ==
    IF c \in LowerSet
    THEN CharAt(UpperChars, CHOOSE i \in 1..26 : CharAt(LowerChars, i) = c)
    ELSE c

RECURSIVE Lower(_)
\* str.lower()
Lower(s) ==
    IF s = "" THEN "" ELSE LowerChar(CharAt(s, 1)) \o Lower(SubSeq(s, 2, Len(s)))

RECURSIVE LStrip(_)
LStrip(s) ==
    IF s # "" /\ IsSpace(CharAt(s, 1)) THEN LStrip(SubSeq(s, 2, Len(s))) ELSE s

RECURSIVE RStrip(_)
RStrip(s) ==
    IF s # "" /\ IsSpace(CharAt(s, Len(s))) THEN RStrip(SubSeq(s, 1, Len(s) - 1)) ELSE s

\* str.strip()
Strip(s) == RStrip(LStrip(s))

RECURSIVE TitleFrom(_, _)
TitleFrom(s, prevIsLetter) ==
    IF s = "" THEN ""
    ELSE LET c == CharAt(s, 1)
             isLetter == c \in (UpperSet \cup LowerSet)
         IN (IF prevIsLetter THEN LowerChar(c) ELSE UpperChar(c))
            \o TitleFrom(SubSeq(s, 2, Len(s)), isLetter)

\* str.title()
Title(s) == TitleFrom(s, FALSE)

\* s[i:i+len(k)] == k
MatchAt(s, i, k) == i >= 1 /\ i + Len(k) - 1 <= Len(s) /\ SubSeq(s, i, i + Len(k) - 1) = k

\* k in s
Contains(s, k) == \E i \in 1..(Len(s) + 1) : MatchAt(s, i, k)

\* \b between positions i-1 and i of s (1-based; i ranges over 1..Len(s)+1)
WordBoundary(s, i) ==
    LET before == i > 1 /\ IsWordChar(CharAt(s, i - 1))
        after == i <= Len(s) /\ IsWordChar(CharAt(s, i))
    IN before # after

\* re.search(rf'\b{re.escape(k)}\b', s)
WordSearch(s, k) ==
    \E i \in 1..(Len(s) + 1) :
        MatchAt(s, i, k) /\ WordBoundary(s, i) /\ WordBoundary(s, i + Len(k))

-----------------------------------------------------------------------------
(* Validation tables (routing/router.py) *)

GENERIC_NATIONAL ==
    {"A191RL1Q225SBEA", "CIVPART", "CPIAUCSL", "CPILFESL", "DGS10", "EMRATIO", "FEDFUNDS", "GDPC1", "LNS12300060", "PAYEMS", "PCE", "PCEPILFE", "UNRATE"}

\* DEMOGRAPHIC_OVERRIDES in dict (insertion) order: <<keyword, series>>
DEMOGRAPHIC_OVERRIDES ==
    << <<"black", <<"LNS14000006", "LNS12300006", "LNS11300006">>>>,
       <<"african american", <<"LNS14000006", "LNS12300006", "LNS11300006">>>>,
       <<"hispanic", <<"LNS14000009", "LNS12300009", "LNS11300009">>>>,
       <<"latino", <<"LNS14000009", "LNS12300009", "LNS11300009">>>>,
       <<"latina", <<"LNS14000009", "LNS12300009", "LNS11300009">>>>,
       <<"women", <<"LNS14000002", "LNS12300002", "LNS11300002">>>>,
       <<"asian", <<"LNS14000004", "LNS12300004", "LNS11300004">>>>,
       <<"youth", <<"LNS14000012", "LNS14000036">>>>,
       <<"teen", <<"LNS14000012">>>>,
       <<"veteran", <<"LNS14049526">>>> >>

\* SECTOR_OVERRIDES in dict (insertion) order: <<keyword, series>>
SECTOR_OVERRIDES ==
    << <<"manufacturing", <<"MANEMP", "IPMAN">>>>,
       <<"construction", <<"USCONS", "HOUST", "PERMIT">>>>,
       <<"restaurant", <<"CES7072200001">>>>,
       <<"healthcare", <<"CES6562000001">>>>,
       <<"tech", <<"USINFO", "CES5000000001">>>>,
       <<"retail", <<"USTRADE", "RSXFS">>>>,
       <<"government", <<"USGOVT", "CES9000000001">>>>,
       <<"hospitality", <<"USLAH", "CES7000000001">>>>,
       <<"finance", <<"USFIRE", "CES5500000001">>>> >>

\* STATE_OVERRIDES in dict (insertion) order: <<keyword, series>>
STATE_OVERRIDES ==
    << <<"alabama", <<"ALUR", "ALNA">>>>,
       <<"alaska", <<"AKUR", "AKNA">>>>,
       <<"arizona", <<"AZUR", "AZNA">>>>,
       <<"arkansas", <<"ARUR", "ARNA">>>>,
       <<"california", <<"CAUR", "CANA">>>>,
       <<"colorado", <<"COUR", "CONA">>>>,
       <<"connecticut", <<"CTUR", "CTNA">>>>,
       <<"delaware", <<"DEUR", "DENA">>>>,
       <<"florida", <<"FLUR", "FLNA">>>>,
       <<"georgia", <<"GAUR", "GANA">>>>,
       <<"hawaii", <<"HIUR", "HINA">>>>,
       <<"idaho", <<"IDUR", "IDNA">>>>,
       <<"illinois", <<"ILUR", "ILNA">>>>,
       <<"indiana", <<"INUR", "INNA">>>>,
       <<"iowa", <<"IAUR", "IANA">>>>,
       <<"kansas", <<"KSUR", "KSNA">>>>,
       <<"kentucky", <<"KYUR", "KYNA">>>>,
       <<"louisiana", <<"LAUR", "LANA">>>>,
       <<"maine", <<"MEUR", "MENA">>>>,
       <<"maryland", <<"MDUR", "MDNA">>>>,
       <<"massachusetts", <<"MAUR", "MANA">>>>,
       <<"michigan", <<"MIUR", "MINA">>>>,
       <<"minnesota", <<"MNUR", "MNNA">>>>,
       <<"mississippi", <<"MSUR", "MSNA">>>>,
       <<"missouri", <<"MOUR", "MONA">>>>,
       <<"montana", <<"MTUR", "MTNA">>>>,
       <<"nebraska", <<"NEUR", "NENA">>>>,
       <<"nevada", <<"NVUR", "NVNA">>>>,
       <<"new hampshire", <<"NHUR", "NHNA">>>>,
       <<"new jersey", <<"NJUR", "NJNA">>>>,
       <<"new mexico", <<"NMUR", "NMNA">>>>,
       <<"new york", <<"NYUR", "NYNA">>>>,
       <<"north carolina", <<"NCUR", "NCNA">>>>,
       <<"north dakota", <<"NDUR", "NDNA">>>>,
       <<"ohio", <<"OHUR", "OHNA">>>>,
       <<"oklahoma", <<"OKUR", "OKNA">>>>,
       <<"oregon", <<"ORUR", "ORNA">>>>,
       <<"pennsylvania", <<"PAUR", "PANA">>>>,
       <<"rhode island", <<"RIUR", "RINA">>>>,
       <<"south carolina", <<"SCUR", "SCNA">>>>,
       <<"south dakota", <<"SDUR", "SDNA">>>>,
       <<"tennessee", <<"TNUR", "TNNA">>>>,
       <<"texas", <<"TXUR", "TXNA">>>>,
       <<"utah", <<"UTUR", "UTNA">>>>,
       <<"vermont", <<"VTUR", "VTNA">>>>,
       <<"virginia", <<"VAUR", "VANA">>>>,
       <<"washington", <<"WAUR", "WANA">>>>,
       <<"west virginia", <<"WVUR", "WVNA">>>>,
       <<"wisconsin", <<"WIUR", "WINA">>>>,
       <<"wyoming", <<"WYUR", "WYNA">>>>,
       <<"district of columbia", <<"DCUR", "DCNA">>>>,
       <<"dc", <<"DCUR", "DCNA">>>> >>

-----------------------------------------------------------------------------
(* RoutingResult (routing/router.py) *)

None == "None"
NoRef == "NoRef"

\* RoutingResult(series=..., route_type=...) with the dataclass defaults
RoutingResult(series, route_type) ==
    [series |-> series, show_yoy |-> FALSE, combine_chart |-> FALSE,
     explanation |-> "", chart_groups |-> None, is_comparison |-> FALSE,
     route_type |-> route_type, cached |-> FALSE,
     fed_guidance |-> None, fed_sep_html |-> None, recession_html |-> None,
     cape_html |-> None, polymarket_html |-> None, temporal_context |-> None]

-----------------------------------------------------------------------------
(* Deterministic validation: QueryRouter._validate *)

\* any(s in series_set for s in expected_series)
HasAny(series_set, expected_series) == \E s \in Range(expected_series) : s \in series_set

\* the new RoutingResult an override returns: enrichment is carried over
OverrideResult(res, series, combine, explanation) ==
    [RoutingResult(series, res.route_type \o "_validated") EXCEPT
        !.combine_chart = combine,
        !.explanation = explanation,
        !.fed_guidance = res.fed_guidance,
        !.fed_sep_html = res.fed_sep_html,
        !.recession_html = res.recession_html,
        !.cape_html = res.cape_html,
        !.polymarket_html = res.polymarket_html,
        !.temporal_context = res.temporal_context]

SkipExactNever(res) == FALSE

\* "Skip validation for exact matches that already have specific series"
SkipExact(res) ==
    res.route_type = "exact" /\ (Range(res.series) \ GENERIC_NATIONAL) # {}

\* the demographic loop body's condition for entry i
DemographicFires(q, series_set, i) ==
    /\ WordSearch(q, DEMOGRAPHIC_OVERRIDES[i][1])
    /\ ~HasAny(series_set, DEMOGRAPHIC_OVERRIDES[i][2])

\* the sector loop body's condition for entry i
SectorFires(q, series_set, i) ==
    /\ Contains(q, SECTOR_OVERRIDES[i][1])
    /\ ~HasAny(series_set, SECTOR_OVERRIDES[i][2])
    /\ series_set \subseteq GENERIC_NATIONAL

\* the state loop body's condition for entry i
StateFires(q, series_set, i) ==
    /\ Contains(q, STATE_OVERRIDES[i][1])
    /\ ~HasAny(series_set, STATE_OVERRIDES[i][2])
    /\ series_set \subseteq GENERIC_NATIONAL

\* the entries of a table for which the loop body returns, in loop order
DemographicHits(q, series_set) ==
    {i \in 1..Len(DEMOGRAPHIC_OVERRIDES) : DemographicFires(q, series_set, i)}

SectorHits(q, series_set) ==
    {i \in 1..Len(SECTOR_OVERRIDES) : SectorFires(q, series_set, i)}

StateHits(q, series_set) ==
    {i \in 1..Len(STATE_OVERRIDES) : StateFires(q, series_set, i)}

Min(S) == CHOOSE i \in S : \A j \in S : i <= j

\* mutant: the state table consulted before the demographic and sector tables
ValidateStateFirst(res, qry) ==
    IF res.series = <<>> THEN res
    ELSE IF SkipExact(res) THEN res
    ELSE
      LET q == Lower(qry)
          series_set == Range(res.series)
          demo == DemographicHits(q, series_set)
          sector == SectorHits(q, series_set)
          state == StateHits(q, series_set)
      IN IF state # {}
         THEN LET e == STATE_OVERRIDES[Min(state)]
              IN OverrideResult(res, e[2] \o <<"UNRATE", "PAYEMS">>, FALSE,
                                Title(e[1]) \o " economic data vs national benchmarks.")
         ELSE IF demo # {}
         THEN LET e == DEMOGRAPHIC_OVERRIDES[Min(demo)]
              IN OverrideResult(res, e[2], TRUE, Title(e[1]) \o " labor market data.")
         ELSE IF sector # {}
         THEN LET e == SECTOR_OVERRIDES[Min(sector)]
              IN OverrideResult(res, e[2], FALSE, Title(e[1]) \o " sector data.")
         ELSE res

\* QueryRouter._validate(result, query)
Validate(res, qry) ==
    IF res.series = <<>> THEN res
    ELSE IF SkipExact(res) THEN res
    ELSE
      LET q == Lower(qry)
          series_set == Range(res.series)
          demo == DemographicHits(q, series_set)
          sector == SectorHits(q, series_set)
          state == StateHits(q, series_set)
      IN IF demo # {}
         THEN LET e == DEMOGRAPHIC_OVERRIDES[Min(demo)]
              IN OverrideResult(res, e[2], TRUE, Title(e[1]) \o " labor market data.")
         ELSE IF sector # {}
         THEN LET e == SECTOR_OVERRIDES[Min(sector)]
              IN OverrideResult(res, e[2], FALSE, Title(e[1]) \o " sector data.")
         ELSE IF state # {}
         THEN LET e == STATE_OVERRIDES[Min(state)]
              IN OverrideResult(res, e[2] \o <<"UNRATE", "PAYEMS">>, FALSE,
                                Title(e[1]) \o " economic data vs national benchmarks.")
         ELSE res

-----------------------------------------------------------------------------
(* Query normalisation: SeriesRegistry._normalize *)

\* the index of the first non-whitespace character of s at or after i
RECURSIVE SkipSpaces(_, _)
SkipSpaces(s, i) ==
    IF i <= Len(s) /\ IsSpace(CharAt(s, i)) THEN SkipSpaces(s, i + 1) ELSE i

\* re.sub(r"'s\b", '', s)
RECURSIVE SubPossessive(_, _)
SubPossessive(s, i) ==
    IF i > Len(s) THEN ""
    ELSE IF MatchAt(s, i, "'s") /\ WordBoundary(s, i + 2)
         THEN SubPossessive(s, i + 2)
         ELSE CharAt(s, i) \o SubPossessive(s, i + 1)

\* re.sub(r'\bv\.?\s+', 'vs ', s)
RECURSIVE SubV(_, _)
SubV(s, i) ==
    IF i > Len(s) THEN ""
    ELSE LET j == IF MatchAt(s, i + 1, ".") THEN i + 2 ELSE i + 1
         IN IF /\ WordBoundary(s, i) /\ CharAt(s, i) = "v"
               /\ j <= Len(s) /\ IsSpace(CharAt(s, j))
            THEN "vs " \o SubV(s, SkipSpaces(s, j))
            ELSE CharAt(s, i) \o SubV(s, i + 1)

\* re.sub(r'\bversus\b', 'vs', s)
RECURSIVE SubVersus(_, _)
SubVersus(s, i) ==
    IF i > Len(s) THEN ""
    ELSE IF WordBoundary(s, i) /\ MatchAt(s, i, "versus") /\ WordBoundary(s, i + 6)
         THEN "vs" \o SubVersus(s, i + 6)
         ELSE CharAt(s, i) \o SubVersus(s, i + 1)

\* re.sub(r'[?!.]+$', '', s)
RECURSIVE StripTrailingPunct(_)
StripTrailingPunct(s) ==
    IF s # "" /\ CharAt(s, Len(s)) \in {"?", "!", "."}
    THEN StripTrailingPunct(SubSeq(s, 1, Len(s) - 1))
    ELSE s

\* re.sub(r'^X\s+', ' ', s)
SubPrefix(s, x) ==
    IF MatchAt(s, 1, x) /\ Len(s) > Len(x) /\ IsSpace(CharAt(s, Len(x) + 1))
    THEN " " \o SubSeq(s, SkipSpaces(s, Len(x) + 1), Len(s))
    ELSE s

\* re.sub(r'\s+X\s*$', ' ', s)
SubSuffix(s, x) ==
    LET t == RStrip(s)
        head == SubSeq(t, 1, Len(t) - Len(x))
    IN IF /\ Len(t) > Len(x)
          /\ MatchAt(t, Len(t) - Len(x) + 1, x)
          /\ IsSpace(CharAt(t, Len(t) - Len(x)))
       THEN RStrip(head) \o " "
       ELSE s

\* re.sub(r'\s+X\s+', ' ', s)
RECURSIVE SubInfix(_, _, _)
SubInfix(s, x, i) ==
    IF i > Len(s) THEN ""
    ELSE LET e == SkipSpaces(s, i)
         IN IF /\ IsSpace(CharAt(s, i)) /\ MatchAt(s, e, x)
               /\ e + Len(x) <= Len(s) /\ IsSpace(CharAt(s, e + Len(x)))
            THEN " " \o SubInfix(s, x, SkipSpaces(s, e + Len(x)))
            ELSE CharAt(s, i) \o SubInfix(s, x, i + 1)

\* the `fillers` list, in order: <<kind of pattern, literal text>>
Fillers ==
    << <<"prefix", "what is">>,
       <<"prefix", "what are">>,
       <<"prefix", "show me">>,
       <<"prefix", "show">>,
       <<"prefix", "tell me about">>,
       <<"prefix", "how is">>,
       <<"prefix", "how are">>,
       <<"prefix", "what's">>,
       <<"prefix", "whats">>,
       <<"prefix", "give me">>,
       <<"prefix", "compare">>,
       <<"prefix", "comparing">>,
       <<"prefix", "explain">>,
       <<"prefix", "is">>,
       <<"prefix", "are">>,
       <<"prefix", "will">>,
       <<"prefix", "can you show">>,
       <<"prefix", "does">>,
       <<"prefix", "do">>,
       <<"prefix", "should i">>,
       <<"suffix", "changed">>,
       <<"suffix", "doing">>,
       <<"suffix", "looking">>,
       <<"suffix", "trending">>,
       <<"suffix", "coming down">>,
       <<"suffix", "going up">>,
       <<"suffix", "going down">>,
       <<"suffix", "getting worse">>,
       <<"suffix", "getting better">>,
       <<"suffix", "rising">>,
       <<"suffix", "falling">>,
       <<"suffix", "dropping">>,
       <<"suffix", "increasing">>,
       <<"suffix", "decreasing">>,
       <<"suffix", "improving">>,
       <<"suffix", "right now">>,
       <<"suffix", "these days">>,
       <<"suffix", "currently">>,
       <<"suffix", "today">>,
       <<"suffix", "lately">>,
       <<"suffix", "recently">>,
       <<"infix", "the">>,
       <<"prefix", "the">> >>

ApplyFiller(s, f) ==
    IF f[1] = "prefix" THEN SubPrefix(s, f[2])
    ELSE IF f[1] = "suffix" THEN SubSuffix(s, f[2])
    ELSE SubInfix(s, f[2], 1)

\* for filler in fillers: q = re.sub(filler, ' ', q)   (one pass over the list)
RECURSIVE ApplyFillers(_, _)
ApplyFillers(s, k) ==
    IF k > Len(Fillers) THEN s
    ELSE LET t == ApplyFiller(s, Fillers[k])
         IN IF Len(t) >= 0 THEN ApplyFillers(t, k + 1) ELSE t

\* ' '.join(s.split())
RECURSIVE JoinSplit(_)
JoinSplit(s) ==
    LET t == LStrip(s)
    IN IF t = "" THEN ""
       ELSE IF s # t THEN (IF JoinSplit(t) = "" THEN "" ELSE " " \o JoinSplit(t))
       ELSE CharAt(s, 1) \o JoinSplit(SubSeq(s, 2, Len(s)))

Normalize(qry) ==
    LET q0 == Strip(Lower(qry))
        q1 == SubPossessive(SubPossessive(q0, 1), 1)
        q2 == SubVersus(SubV(q1, 1), 1)
        q3 == Strip(StripTrailingPunct(q2))
        q4 == ApplyFillers(q3, 1)
    IN Strip(JoinSplit(Strip(q4)))

-----------------------------------------------------------------------------
(* Plan registry: SeriesRegistry over a few QUERY_MAP entries *)

\* QUERY_MAP entries; every entry is its own dict with its own series list
QUERY_MAP ==
    [k \in {"unemployment", "inflation", "women"} |->
        CASE k = "unemployment" -> [series |-> <<"UNRATE">>, combine |-> FALSE, show_yoy |-> FALSE]
          [] k = "inflation" -> [series |-> <<"CPIAUCSL", "CPILFESL">>, combine |-> TRUE, show_yoy |-> TRUE]
          [] k = "women" -> [series |-> <<"LNS14000002", "LNS12300062", "LNS11300002">>,
                             combine |-> FALSE, show_yoy |-> FALSE]]

PlanKeys == DOMAIN QUERY_MAP

\* registry.get_plan(query): the key of the plan found, or None
GetPlan(qry) ==
    IF Normalize(qry) \in PlanKeys THEN Normalize(qry)
    ELSE IF Lower(qry) \in PlanKeys THEN Lower(qry)
    ELSE None

\* QueryRouter._plan_to_result on the plan stored under key k
PlanToResult(plan, route_type) ==
    [RoutingResult(plan.series, route_type) EXCEPT
        !.show_yoy = plan.show_yoy,
        !.combine_chart = plan.combine]

-----------------------------------------------------------------------------
(* Routing cache: LRUCache / CacheManager (cache/cache_manager.py) *)

RoutingMaxSize == 10000

\* CacheManager._routing_key
RoutingKey(qry) == "route:" \o Strip(Lower(qry))

\* key in self._cache
CacheHas(c, key) == \E i \in 1..Len(c) : c[i].key = key

CacheIndex(c, key) == CHOOSE i \in 1..Len(c) : c[i].key = key

RemoveAt(c, i) == SubSeq(c, 1, i - 1) \o SubSeq(c, i + 1, Len(c))

\* OrderedDict.move_to_end(key)
MoveToEnd(c, key) == RemoveAt(c, CacheIndex(c, key)) \o <<c[CacheIndex(c, key)]>>

\* del self._cache[key]
CacheDelete(c, key) == RemoveAt(c, CacheIndex(c, key))

\* while len(self._cache) >= max_size: popitem(last=False)
RECURSIVE EvictOldest(_, _)
EvictOldest(c, max_size) ==
    IF Len(c) >= max_size /\ Len(c) > 0 THEN EvictOldest(Tail(c), max_size) ELSE c

\* LRUCache.set: evict, then self._cache[key] = entry (an existing key keeps its place)
CacheSet(c, key, value, max_size) ==
    LET e == EvictOldest(c, max_size)
        entry == [key |-> key, value |-> value]
    IN IF CacheHas(e, key)
       THEN [e EXCEPT ![CacheIndex(e, key)] = entry]
       ELSE Append(e, entry)

\* CacheManager.set_routing
SetRouting(c, qry, plan_dict) == CacheSet(c, RoutingKey(qry), plan_dict, RoutingMaxSize)

\* _cache_result storing show_yoy under 'combine'
PlanDictSwapped(res, ref) ==
    [series |-> res.series, show_yoy |-> res.show_yoy, combine |-> res.show_yoy,
     explanation |-> res.explanation, chart_groups |-> res.chart_groups,
     is_comparison |-> res.is_comparison, sref |-> ref]

\* _cache_result leaving the explanation out
PlanDictNoExplanation(res, ref) ==
    [series |-> res.series, show_yoy |-> res.show_yoy, combine |-> res.combine_chart,
     explanation |-> "", chart_groups |-> res.chart_groups,
     is_comparison |-> res.is_comparison, sref |-> ref]

\* the plan_dict of QueryRouter._cache_result; sref records whose list object 'series' is
PlanDict(res, ref) ==
    [series |-> res.series, show_yoy |-> res.show_yoy, combine |-> res.combine_chart,
     explanation |-> res.explanation, chart_groups |-> res.chart_groups,
     is_comparison |-> res.is_comparison, sref |-> ref]

\* the cache-hit branch reading 'combine_chart', a key _cache_result never writes
CachedResultWrongKey(d) ==
    [RoutingResult(d.series, "cached") EXCEPT
        !.show_yoy = d.show_yoy,
        !.explanation = d.explanation,
        !.chart_groups = d.chart_groups,
        !.is_comparison = d.is_comparison,
        !.cached = TRUE]

\* the RoutingResult route() builds from a cache entry
CachedResult(d) ==
    [RoutingResult(d.series, "cached") EXCEPT
        !.show_yoy = d.show_yoy,
        !.combine_chart = d.combine,
        !.explanation = d.explanation,
        !.chart_groups = d.chart_groups,
        !.is_comparison = d.is_comparison,
        !.cached = TRUE]

-----------------------------------------------------------------------------
(* What the collaborators outside the router can answer *)

\* the query texts route() is called with
Queries ==
    {"What is inflation?", "women", "black unemployment", "dot plot"}

\* decisions LLMRouter.route can return (a parsed JSON object)
Decision(plan_key, secondary_plan_key, custom_series, show_yoy, is_comparison) ==
    [plan_key |-> plan_key, secondary_plan_key |-> secondary_plan_key,
     custom_series |-> custom_series, show_yoy |-> show_yoy,
     is_comparison |-> is_comparison, explanation |-> "one sentence"]

NoDecision == Decision("", "", <<>>, FALSE, FALSE)

LLMDecisions ==
    { Decision("inflation", "", <<>>, FALSE, FALSE),
      Decision("unemployment", "inflation", <<>>, TRUE, TRUE),
      Decision("black unemployment rate", "", <<>>, FALSE, FALSE),
      Decision("black unemployment rate", "", <<"LNS14000006">>, FALSE, TRUE),
      Decision("", "", <<"UNRATE">>, FALSE, FALSE),
      Decision("", "", <<"JTSJOL", "JTSJOL">>, TRUE, FALSE),
      NoDecision }

\* what difflib.get_close_matches can select among the registry's keys
FuzzyOutcomes == PlanKeys \cup {None}

\* HealthCheckConfig objects get_config can return
HealthConfigs ==
    { [primary_series |-> <<"UMCSENT", "RSXFS", "PAYEMS">>, show_yoy |-> FALSE,
       explanation |-> "Consumer health."] }

\* plans build_dynamic_plan can return
DynamicPlans ==
    { [series |-> <<"UNRATE", "CIVPART">>, show_yoy |-> FALSE, explanation |-> "dynamic"],
      [series |-> <<>>, show_yoy |-> FALSE, explanation |-> ""] }

\* classifications classify_query can return: topic ("" for none) and show_yoy
Classifications ==
    { [topic |-> "unemployment", show_yoy |-> "True"],
      [topic |-> "no such topic", show_yoy |-> None],
      [topic |-> "", show_yoy |-> None] }

\* SpecialRouteResult objects SpecialRouter.check can return
SpecialResults ==
    { [matched |-> TRUE, route_type |-> "fed_sep", series |-> <<"FEDFUNDS", "DGS10">>,
       show_yoy |-> FALSE,
       extra_data |-> [fed_sep_html |-> "sep", fed_guidance |-> "guidance",
                       recession_html |-> None, cape_html |-> None]],
      [matched |-> TRUE, route_type |-> "health_check", series |-> <<>>,
       show_yoy |-> FALSE,
       extra_data |-> [fed_sep_html |-> None, fed_guidance |-> None,
                       recession_html |-> None, cape_html |-> None]] }

\* dicts special_router.get_enrichment can return (None: key absent or falsy)
Enrichments ==
    { [fed_guidance |-> None, fed_sep_html |-> None, recession_html |-> None, cape_html |-> None],
      [fed_guidance |-> "guidance", fed_sep_html |-> "sep", recession_html |-> "scorecard", cape_html |-> None] }

-----------------------------------------------------------------------------
(* QueryRouter helpers *)

\* the series list after "for s in extra_series: if s not in result.series: append"
RECURSIVE MergeSeries(_, _)
MergeSeries(series, extra) ==
    IF extra = <<>> THEN series
    ELSE IF Head(extra) \in Range(series)
         THEN MergeSeries(series, Tail(extra))
         ELSE MergeSeries(Append(series, Head(extra)), Tail(extra))

\* enrichment as the earlier design did it: a Fed match replaces the series
EnrichSpecialReplacing(res, enrichment) ==
    [res EXCEPT
        !.series = IF enrichment.fed_guidance # None THEN <<"FEDFUNDS", "DGS10">> ELSE @,
        !.fed_guidance = IF enrichment.fed_guidance # None THEN enrichment.fed_guidance ELSE @,
        !.fed_sep_html = IF enrichment.fed_sep_html # None THEN enrichment.fed_sep_html ELSE @,
        !.recession_html = IF enrichment.recession_html # None THEN enrichment.recession_html ELSE @,
        !.cape_html = IF enrichment.cape_html # None THEN enrichment.cape_html ELSE @]

\* QueryRouter._enrich_special, given the dict get_enrichment returned
EnrichSpecial(res, enrichment) ==
    [res EXCEPT
        !.fed_guidance = IF enrichment.fed_guidance # None THEN enrichment.fed_guidance ELSE @,
        !.fed_sep_html = IF enrichment.fed_sep_html # None THEN enrichment.fed_sep_html ELSE @,
        !.recession_html = IF enrichment.recession_html # None THEN enrichment.recession_html ELSE @,
        !.cape_html = IF enrichment.cape_html # None THEN enrichment.cape_html ELSE @]

\* QueryRouter._special_to_routing_result
SpecialToRoutingResult(special) ==
    [RoutingResult(special.series, "special_" \o special.route_type) EXCEPT
        !.show_yoy = special.show_yoy,
        !.fed_sep_html = special.extra_data.fed_sep_html,
        !.fed_guidance = special.extra_data.fed_guidance,
        !.recession_html = special.extra_data.recession_html,
        !.cape_html = special.extra_data.cape_html]

\* QueryRouter._handle_health_check, given the config found
HealthCheckResult(config) ==
    [RoutingResult(config.primary_series, "health_check") EXCEPT
        !.show_yoy = config.show_yoy,
        !.explanation = config.explanation]

\* the RoutingResult of the "No match" step
NoMatchResult ==
    [RoutingResult(<<>>, "none") EXCEPT
        !.explanation = "No matching economic data found for this query."]

NoResult == RoutingResult(<<>>, "unknown")

NoRet == [kind |-> "none", val |-> NoResult]

-----------------------------------------------------------------------------
(* QueryRouter.route, one action per step of the method *)

\* one entry of the log of collaborator invocations: which step of route() called what
Entry(st, op) == [stage |-> st, op |-> op]

Log(st, op) == calls' = Append(calls, Entry(st, op))

Raise == ret' = [kind |-> "exception", val |-> NoResult] /\ pc' = "done"

\* every cache entry whose 'series' is plan k's list object sees the list change
Realias(c, k, series) ==
    [i \in 1..Len(c) |->
        IF c[i].value.sref = k THEN [c[i] EXCEPT !.value.series = series] ELSE c[i]]

\* a caller invokes router.route(q); _ensure_catalog runs first
Call(q) ==
    /\ pc = "idle"
    /\ nreq < MaxRequests
    /\ nreq' = nreq + 1
    /\ query' = q
    /\ calls' = IF catalog_built THEN <<>> ELSE <<Entry("init", "build_catalog")>>
    /\ catalog_built' = TRUE
    /\ pc' = "cache"
    /\ UNCHANGED <<plans, cache, env, result, sref, stage, llm_result, ret, vin, vout, vpc>>

\* STEP 1: cached = cache_manager.get_routing(query); if cached: return ...
CacheLookup ==
    /\ pc = "cache"
    /\ Log("cache", "cache_get")
    /\ LET key == RoutingKey(query)
       IN \/ /\ ~CacheHas(cache, key)
             /\ pc' = "exact"
             /\ UNCHANGED <<cache, ret, sref>>
          \/ /\ CacheHas(cache, key)
             /\ \/ \* now > entry.expires_at
                   /\ cache' = CacheDelete(cache, key)
                   /\ pc' = "exact"
                   /\ UNCHANGED <<ret, sref>>
                \/ \* probabilistic early expiration
                   /\ pc' = "exact"
                   /\ UNCHANGED <<cache, ret, sref>>
                \/ \* hit
                   /\ cache' = MoveToEnd(cache, key)
                   /\ ret' = [kind |-> "result",
                              val |-> CachedResult(cache[CacheIndex(cache, key)].value)]
                   /\ sref' = cache[CacheIndex(cache, key)].value.sref
                   /\ pc' = "done"
    /\ UNCHANGED <<plans, catalog_built, env, query, result, stage, llm_result, nreq,
                   vin, vout, vpc>>

\* STEP 2: plan = registry.get_plan(query); if plan: ...
ExactMatch ==
    /\ pc = "exact"
    /\ Log("exact", "get_plan")
    /\ IF GetPlan(query) # None
       THEN /\ result' = PlanToResult(plans[GetPlan(query)], "exact")
            /\ sref' = GetPlan(query)
            /\ stage' = "exact"
            /\ pc' = "enrich"
       ELSE /\ pc' = "health"
            /\ UNCHANGED <<result, sref, stage>>
    /\ UNCHANGED <<plans, cache, catalog_built, env, query, llm_result, ret, nreq,
                   vin, vout, vpc>>

\* STEP 2b: health check queries
HealthCheck ==
    /\ pc = "health"
    /\ IF ~env.health
       THEN /\ pc' = "llm"
            /\ UNCHANGED <<result, stage, ret, calls>>
       ELSE /\ Log("health", "health_check")
            /\ \/ \* is_query(query) is false, or no entity / no config is found
                  /\ pc' = "llm"
                  /\ UNCHANGED <<result, stage, ret>>
               \/ \* is_query, detect_entity or get_config raises
                  /\ Raise
                  /\ UNCHANGED <<result, stage>>
               \/ \E config \in HealthConfigs :
                     /\ result' = HealthCheckResult(config)
                     /\ stage' = "health"
                     /\ pc' = "enrich"
                     /\ UNCHANGED ret
    /\ UNCHANGED <<plans, cache, catalog_built, env, query, sref, llm_result, nreq,
                   vin, vout, vpc>>

\* STEP 3: llm_result = self._llm_router.route(query), inside the try
LLMRoute ==
    /\ pc = "llm"
    /\ IF ~(catalog_built /\ env.gemini)
       THEN /\ pc' = "fuzzy"
            /\ UNCHANGED <<llm_result, calls>>
       ELSE /\ Log("llm", "llm_router")
            /\ \/ \* None (network failure, unparseable answer) or an exception
                  /\ pc' = "fuzzy"
                  /\ UNCHANGED llm_result
               \/ \E d \in LLMDecisions :
                     /\ llm_result' = d
                     /\ pc' = "resolve"
    /\ UNCHANGED <<plans, cache, catalog_built, env, query, result, sref, stage, ret, nreq,
                   vin, vout, vpc>>

\* Case 2 of _resolve_llm_result: the decision's custom series, or None
ResolveCustom ==
    LET d == llm_result
    IN IF d.custom_series # <<>>
       THEN /\ result' = [RoutingResult(d.custom_series, "llm_v3_custom") EXCEPT
                             !.show_yoy = d.show_yoy,
                             !.is_comparison = d.is_comparison,
                             !.explanation = d.explanation]
            /\ sref' = NoRef
            /\ stage' = "llm"
            /\ pc' = "enrich"
       ELSE /\ pc' = "fuzzy"
            /\ UNCHANGED <<result, sref, stage>>

\* the else branch of Case 1: plan = registry.fuzzy_match(plan_key, threshold=0.6)
ResolveUnknownPlanKey ==
    /\ calls' = calls \o <<Entry("llm", "get_plan"), Entry("llm", "fuzzy_match")>>
    /\ UNCHANGED <<plans, cache>>
    /\ \E f \in FuzzyOutcomes :
          IF f # None
          THEN /\ result' = [PlanToResult(plans[f], "llm_v3_fuzzy") EXCEPT
                                !.is_comparison = llm_result.is_comparison]
               /\ sref' = f
               /\ stage' = "llm"
               /\ pc' = IF plans[f].series # <<>> THEN "enrich" ELSE "fuzzy"
          ELSE ResolveCustom

\* result = self._resolve_llm_result(llm_result, query); if result and result.series: ...
ResolveLLM ==
    /\ pc = "resolve"
    /\ LET d == llm_result
           k == GetPlan(d.plan_key)
           merge == d.is_comparison /\ d.secondary_plan_key # ""
           k2 == GetPlan(d.secondary_plan_key)
       IN IF d.plan_key # "" /\ k # None
          THEN \* Case 1: the plan key resolves
               LET series == IF merge /\ k2 # None
                             THEN MergeSeries(plans[k].series, plans[k2].series)
                             ELSE plans[k].series
                   base == PlanToResult(plans[k], "llm_v3")
               IN /\ calls' = calls \o (IF merge
                                      THEN <<Entry("llm", "get_plan"), Entry("llm", "get_plan")>>
                                      ELSE <<Entry("llm", "get_plan")>>)
                  /\ plans' = [plans EXCEPT ![k].series = series]
                  /\ cache' = Realias(cache, k, series)
                  /\ result' = [base EXCEPT
                                   !.series = series,
                                   !.show_yoy = IF d.show_yoy THEN TRUE ELSE @,
                                   !.is_comparison = d.is_comparison \/ (merge /\ k2 # None)]
                  /\ sref' = k
                  /\ stage' = "llm"
                  /\ pc' = IF series # <<>> THEN "enrich" ELSE "fuzzy"
          ELSE IF d.plan_key # ""
          THEN \* the plan key did not resolve: fuzzy match on the plan key itself
               ResolveUnknownPlanKey
          ELSE \* Case 2: custom series, or nothing
               /\ UNCHANGED <<calls, plans, cache>>
               /\ ResolveCustom
    /\ UNCHANGED <<catalog_built, env, query, llm_result, ret, nreq, vin, vout, vpc>>

\* STEP 3b: plan = registry.fuzzy_match(query, threshold=0.7)
FuzzyFallback ==
    /\ pc = "fuzzy"
    /\ Log("fuzzy", "fuzzy_match")
    /\ \E f \in FuzzyOutcomes :
          IF f # None
          THEN /\ result' = PlanToResult(plans[f], "fuzzy_fallback")
               /\ sref' = f
               /\ stage' = "fuzzy"
               /\ pc' = "enrich"
          ELSE /\ pc' = "oldllm"
               /\ UNCHANGED <<result, sref, stage>>
    /\ UNCHANGED <<plans, cache, catalog_built, env, query, llm_result, ret, nreq,
                   vin, vout, vpc>>

\* STEP 3c: result = self._old_llm_route(query); if result and result.series: ...
OldLLMRoute ==
    /\ pc = "oldllm"
    /\ IF ~env.oldllm
       THEN /\ pc' = "special"
            /\ UNCHANGED <<result, sref, stage, calls>>
       ELSE \/ \* build_dynamic_plan returns a plan with series
               \E plan \in DynamicPlans :
                  /\ plan.series # <<>>
                  /\ Log("oldllm", "old_llm")
                  /\ result' = [RoutingResult(plan.series, "fallback_dynamic") EXCEPT
                                   !.show_yoy = plan.show_yoy,
                                   !.explanation = plan.explanation]
                  /\ sref' = NoRef
                  /\ stage' = "oldllm"
                  /\ pc' = "enrich"
            \/ \* build_dynamic_plan raises or returns nothing usable, and so does classify_query
               /\ Log("oldllm", "old_llm")
               /\ pc' = "special"
               /\ UNCHANGED <<result, sref, stage>>
            \/ \* build_dynamic_plan raises or returns nothing usable; classify_query answers
               \E c \in Classifications :
                  /\ c.topic # ""
                  /\ calls' = calls \o <<Entry("oldllm", "old_llm"), Entry("oldllm", "get_plan")>>
                  /\ IF GetPlan(c.topic) # None
                     THEN /\ result' = [PlanToResult(plans[GetPlan(c.topic)], "fallback_classify")
                                           EXCEPT !.show_yoy =
                                               IF c.show_yoy # None THEN c.show_yoy = "True" ELSE @]
                          /\ sref' = GetPlan(c.topic)
                          /\ stage' = "oldllm"
                          /\ pc' = "enrich"
                     ELSE /\ pc' = "special"
                          /\ UNCHANGED <<result, sref, stage>>
    /\ UNCHANGED <<plans, cache, catalog_built, env, query, llm_result, ret, nreq,
                   vin, vout, vpc>>

\* STEP 3d: special_result = special_router.check(query), else "No match"
SpecialCheck ==
    /\ pc = "special"
    /\ Log("special", "special_check")
    /\ \/ \* one of the special modules raises
          /\ Raise
          /\ UNCHANGED <<result, stage>>
       \/ \* check returns None: no match
          /\ ret' = [kind |-> "result", val |-> NoMatchResult]
          /\ pc' = "done"
          /\ UNCHANGED <<result, stage>>
       \/ \E special \in SpecialResults :
             IF special.matched /\ special.series # <<>>
             THEN /\ result' = SpecialToRoutingResult(special)
                  /\ stage' = "special"
                  /\ pc' = "validate"
                  /\ UNCHANGED ret
             ELSE /\ ret' = [kind |-> "result", val |-> NoMatchResult]
                  /\ pc' = "done"
                  /\ UNCHANGED <<result, stage>>
    /\ sref' = NoRef
    /\ UNCHANGED <<plans, cache, catalog_built, env, query, llm_result, nreq,
                   vin, vout, vpc>>

\* STEP 4: result = self._enrich_special(result, query[, llm_result])
Enrich ==
    /\ pc = "enrich"
    /\ Log(stage, "enrich")
    /\ \/ \* special_router.get_enrichment raises; only the LLM step is inside a try
          /\ IF stage = "llm"
             THEN pc' = "fuzzy" /\ UNCHANGED ret
             ELSE Raise
          /\ UNCHANGED result
       \/ \E enrichment \in Enrichments :
             /\ result' = EnrichSpecial(result, enrichment)
             /\ pc' = "validate"
             /\ UNCHANGED ret
    /\ UNCHANGED <<plans, cache, catalog_built, env, query, sref, stage, llm_result, nreq,
                   vin, vout, vpc>>

\* STEP 5: result = self._validate(result, query)
ValidateStep ==
    /\ pc = "validate"
    /\ Log(stage, "validate")
    /\ result' = Validate(result, query)
    /\ sref' = IF Validate(result, query).route_type = result.route_type THEN sref ELSE NoRef
    /\ pc' = "cachewrite"
    /\ UNCHANGED <<plans, cache, catalog_built, env, query, stage, llm_result, ret, nreq,
                   vin, vout, vpc>>

\* self._cache_result(query, result); return result
CacheWrite ==
    /\ pc = "cachewrite"
    /\ Log(stage, "cache_set")
    /\ cache' = SetRouting(cache, query, PlanDict(result, sref))
    /\ ret' = [kind |-> "result", val |-> result]
    /\ pc' = "done"
    /\ UNCHANGED <<plans, catalog_built, env, query, result, sref, stage, llm_result, nreq,
                   vin, vout, vpc>>

\* the caller has the result (or the exception); the router is ready for the next call
Return ==
    /\ pc = "done"
    /\ pc' = "idle"
    /\ query' = ""
    /\ result' = NoResult
    /\ sref' = NoRef
    /\ stage' = "none"
    /\ llm_result' = NoDecision
    /\ calls' = <<>>
    /\ ret' = NoRet
    /\ UNCHANGED <<plans, cache, catalog_built, env, nreq, vin, vout, vpc>>

-----------------------------------------------------------------------------
(* Specification of the router *)

NoInput == [res |-> NoResult, qry |-> ""]

RouterIdle ==
    /\ plans = QUERY_MAP
    /\ cache = <<>>
    /\ catalog_built = FALSE
    /\ pc = "idle"
    /\ query = ""
    /\ result = NoResult
    /\ sref = NoRef
    /\ stage = "none"
    /\ llm_result = NoDecision
    /\ calls = <<>>
    /\ ret = NoRet
    /\ nreq = 0

Init ==
    /\ RouterIdle
    /\ env \in [gemini : BOOLEAN, oldllm : BOOLEAN, health : BOOLEAN]
    /\ vin = NoInput
    /\ vout = NoResult
    /\ vpc = "off"

Next ==
    \/ \E q \in Queries : Call(q)
    \/ CacheLookup
    \/ ExactMatch
    \/ HealthCheck
    \/ LLMRoute
    \/ ResolveLLM
    \/ FuzzyFallback
    \/ OldLLMRoute
    \/ SpecialCheck
    \/ Enrich
    \/ ValidateStep
    \/ CacheWrite
    \/ Return

Spec == Init /\ [][Next]_vars

-----------------------------------------------------------------------------
(* Specification of _validate as a function of (result, query) *)

\* "<name> jobs" for every key of STATE_OVERRIDES
StateJobsQueries == {STATE_OVERRIDES[i][1] \o " jobs" : i \in 1..Len(STATE_OVERRIDES)}

AllKeywords ==
    {DEMOGRAPHIC_OVERRIDES[i][1] : i \in 1..Len(DEMOGRAPHIC_OVERRIDES)}
    \cup {SECTOR_OVERRIDES[i][1] : i \in 1..Len(SECTOR_OVERRIDES)}
    \cup {STATE_OVERRIDES[i][1] : i \in 1..Len(STATE_OVERRIDES)}

\* every keyword as a word of its own, and inside a longer word
KeywordQueries ==
    {k \o " workers" : k \in AllKeywords} \cup {k \o "ish workers" : k \in AllKeywords}

\* queries with keywords of more than one override table
SeveralCategoryQueries ==
    {"black unemployment in texas", "manufacturing jobs in texas",
     "Hispanic construction workers", "black and hispanic retail workers in ohio",
     "technology jobs in georgia"}

ValidateQueries ==
    StateJobsQueries \cup KeywordQueries \cup SeveralCategoryQueries \cup
    {"blackout risk", "technology jobs", "employment remained strong", "Black Workers",
     "black unemployment in texas", "dot plot"}

ValidateSeries ==
    {<<>>, <<"UNRATE">>, <<"PAYEMS", "UNRATE">>, <<"JTSJOL">>, <<"UNRATE", "JTSJOL">>,
     <<"LNS14000006">>}

ValidateInputs ==
    {[res |-> RoutingResult(series, rt), qry |-> q] :
        series \in ValidateSeries, rt \in {"exact", "llm_v3_custom"}, q \in ValidateQueries}

InitValidate ==
    /\ RouterIdle
    /\ env = [gemini |-> FALSE, oldllm |-> FALSE, health |-> FALSE]
    /\ vin \in ValidateInputs
    /\ vout = NoResult
    /\ vpc = "in"

ApplyValidate ==
    /\ vpc = "in"
    /\ vout' = Validate(vin.res, vin.qry)
    /\ vpc' = "out"
    /\ UNCHANGED <<vin, plans, cache, catalog_built, env, pc, query, result, sref, stage,
                   llm_result, calls, ret, nreq>>

NextValidate == ApplyValidate

SpecValidate == InitValidate /\ [][NextValidate]_vars

-----------------------------------------------------------------------------
(* Properties of the router *)

Returned == pc = "done" /\ ret.kind = "result"

LastCall == calls[Len(calls)]

NoDuplicates(series) ==
    \A i, j \in 1..Len(series) : i # j => series[i] # series[j]

\* the position of a stage in the documented order
StageRank(st) ==
    CASE st = "init" -> 0
      [] st = "cache" -> 1
      [] st = "exact" -> 2
      [] st = "health" -> 3
      [] st = "llm" -> 4
      [] st = "fuzzy" -> 5
      [] st = "oldllm" -> 6
      [] st = "special" -> 7

\* C1: route evaluates its stages in the fixed order cache, exact, LLM router, fuzzy,
\* secondary LLM, no match; once a stage has resolved a non-empty series list (its
\* enrichment has begun) no later stage is invoked, an exact match never causes an
\* LLM call, and a result with an empty series list is returned only as "no match".
C1_StagesShortCircuit ==
    /\ \A i, j \in 1..Len(calls) :
          i < j => StageRank(calls[i].stage) <= StageRank(calls[j].stage)
    /\ \A i, j \in 1..Len(calls) :
          (i < j /\ calls[i].op = "enrich") => calls[j].stage = calls[i].stage
    /\ (\E i \in 1..Len(calls) : calls[i] = Entry("exact", "enrich"))
          => \A j \in 1..Len(calls) : calls[j].op \notin {"llm_router", "old_llm"}
    /\ (Returned /\ ret.val.series = <<>>) => ret.val.route_type = "none"

\* C2: no exception escapes route: every call ends with a RoutingResult.
C2_NoExceptionEscapes ==
    pc = "done" => ret.kind = "result"

\* C3: a result tagged 'cached' is built from the entry stored under the query's key,
\* and the request that returns it has invoked nothing but the cache read: no registry,
\* LLM router, fuzzy matcher, enrichment, validation or cache write.
C3_CacheHitReturnsImmediately ==
    (Returned /\ ret.val.route_type = "cached") =>
        /\ calls = <<Entry("cache", "cache_get")>>
        /\ CacheHas(cache, RoutingKey(query))
        /\ LET d == cache[CacheIndex(cache, RoutingKey(query))].value
           IN /\ ret.val.series = d.series
              /\ ret.val.show_yoy = d.show_yoy
              /\ ret.val.combine_chart = d.combine
              /\ ret.val.explanation = d.explanation
              /\ ret.val.chart_groups = d.chart_groups
              /\ ret.val.is_comparison = d.is_comparison
              /\ ret.val.cached

C3_Witness ==
    /\ Returned
    /\ ret.val.route_type = "cached"
    /\ ret.val.series # <<>>
    /\ ret.val.combine_chart

\* C4: when route returns a non-empty result of a non-cache stage, its last step was the
\* cache write and the cache holds, under the query's key, the returned series and display
\* flags; a request that returns the no-match result has written nothing.
C4_ResultCachedBeforeReturn ==
    Returned =>
        IF ret.val.route_type = "none"
        THEN \A i \in 1..Len(calls) : calls[i].op # "cache_set"
        ELSE (ret.val.route_type # "cached" /\ ret.val.series # <<>>) =>
                /\ LastCall.op = "cache_set"
                /\ CacheHas(cache, RoutingKey(query))
                /\ LET d == cache[CacheIndex(cache, RoutingKey(query))].value
                   IN /\ d.series = ret.val.series
                      /\ d.show_yoy = ret.val.show_yoy
                      /\ d.combine = ret.val.combine_chart
                      /\ d.explanation = ret.val.explanation
                      /\ d.chart_groups = ret.val.chart_groups
                      /\ d.is_comparison = ret.val.is_comparison

C4_Witness ==
    /\ Returned
    /\ ret.val.route_type = "fuzzy_fallback_validated"
    /\ ret.val.combine_chart
    /\ CacheHas(cache, RoutingKey(query))

\* C9: the enrichment step leaves series, show_yoy, combine_chart, chart_groups and
\* is_comparison (and the route type and explanation) of the result as they were.
C9_EnrichmentAdditive ==
    [][(pc = "enrich" /\ pc' = "validate") =>
          /\ result'.series = result.series
          /\ result'.show_yoy = result.show_yoy
          /\ result'.combine_chart = result.combine_chart
          /\ result'.chart_groups = result.chart_groups
          /\ result'.is_comparison = result.is_comparison
          /\ result'.route_type = result.route_type
          /\ result'.explanation = result.explanation]_vars

C9_Witness ==
    /\ pc = "validate"
    /\ LastCall.op = "enrich"
    /\ result.fed_guidance # None
    /\ result.series = <<"CPIAUCSL", "CPILFESL">>

-----------------------------------------------------------------------------
(* Properties of _validate *)

Validated == vpc = "out"

DemographicExplanation(i) == Title(DEMOGRAPHIC_OVERRIDES[i][1]) \o " labor market data."
SectorExplanation(i) == Title(SECTOR_OVERRIDES[i][1]) \o " sector data."
StateExplanation(i) == Title(STATE_OVERRIDES[i][1]) \o " economic data vs national benchmarks."

\* C5: an 'exact' result with at least one series outside the generic-national set is
\* returned unchanged, whatever keywords the query contains.
C5_ExactSpecificUnchanged ==
    (/\ Validated
     /\ vin.res.route_type = "exact"
     /\ (Range(vin.res.series) \ GENERIC_NATIONAL) # {}) => vout = vin.res

C5_Witness ==
    /\ Validated
    /\ vin.res.route_type = "exact"
    /\ vin.res.series = <<"UNRATE", "JTSJOL">>
    /\ vin.qry = "black unemployment in texas"

\* C6: the demographic override fires only when every resolved series id is in the
\* generic-national set.
C6_DemographicOnlyWhenGeneric ==
    (/\ Validated
     /\ vout # vin.res
     /\ \E i \in 1..Len(DEMOGRAPHIC_OVERRIDES) : vout.explanation = DemographicExplanation(i))
    => Range(vin.res.series) \subseteq GENERIC_NATIONAL

\* C7: a keyword that does not occur in the query as a whole word never triggers its
\* override, for each of the three tables.
C7_WholeWordOnly ==
    Validated =>
        /\ \A i \in 1..Len(DEMOGRAPHIC_OVERRIDES) :
              ~WordSearch(Lower(vin.qry), DEMOGRAPHIC_OVERRIDES[i][1])
                  => vout.explanation # DemographicExplanation(i)
        /\ \A i \in 1..Len(SECTOR_OVERRIDES) :
              ~WordSearch(Lower(vin.qry), SECTOR_OVERRIDES[i][1])
                  => vout.explanation # SectorExplanation(i)
        /\ \A i \in 1..Len(STATE_OVERRIDES) :
              ~WordSearch(Lower(vin.qry), STATE_OVERRIDES[i][1])
                  => vout.explanation # StateExplanation(i)

\* C8: for every state name S, '<S> jobs' with a non-empty all-generic result yields S's
\* two series followed by UNRATE and PAYEMS.
C8_StateJobsOverride ==
    Validated =>
        \A i \in 1..Len(STATE_OVERRIDES) :
            (/\ vin.qry = STATE_OVERRIDES[i][1] \o " jobs"
             /\ vin.res.series # <<>>
             /\ Range(vin.res.series) \subseteq GENERIC_NATIONAL)
            => vout.series = STATE_OVERRIDES[i][2] \o <<"UNRATE", "PAYEMS">>

-----------------------------------------------------------------------------
(* Shared data *)

\* C11: routing never mutates shared data: in every step the series list of
\* every registry plan equals its value after load, and the series list of an
\* entry already in the routing cache changes only when _cache_result stores a
\* new entry under its key.
C11_NoSharedMutation ==
    [][ /\ \A k \in PlanKeys : plans'[k].series = QUERY_MAP[k].series
        /\ pc # "cachewrite" =>
              \A i \in 1..Len(cache) : \A j \in 1..Len(cache') :
                  cache'[j].key = cache[i].key =>
                      cache'[j].value.series = cache[i].value.series ]_vars

-----------------------------------------------------------------------------
(* Fallback chain *)

\* C12: the secondary LLM fallback (_old_llm_route) is invoked only in
\* requests where the primary LLM router was unavailable or its call failed:
\* when route() reaches the call of _old_llm_route, the primary router has
\* returned no decision in this request (llm_result still holds no key and no
\* series).
C12_SecondaryOnlyWhenPrimaryDown ==
    pc = "oldllm" => llm_result = NoDecision

-----------------------------------------------------------------------------
(* LLMRouter (routing/llm_router.py) *)

\* _call_gemini(prompt, retries=2)
GeminiRetries == 2

\* _set_cache: more than 300 entries -> the 75 oldest are deleted
LLMCacheLimit == 300
LLMEvictCount == 75

\* the markdown fence marker (three backquotes), written with tildes because a
\* TLA+ string cannot hold a backquote
Fence == "~~~"
FenceJson == "~~~json"

RECURSIVE RStripChar(_, _)
\* str.rstrip(c)
RStripChar(s, c) ==
    IF s # "" /\ CharAt(s, Len(s)) = c THEN RStripChar(SubSeq(s, 1, Len(s) - 1), c) ELSE s

\* LLMRouter._cache_key
LLMCacheKey(qry) == Strip(RStripChar(Strip(Lower(qry)), "?"))

\* str.find(sep): position of the first occurrence of sep in s, 0 when absent
Find(s, sep) ==
    IF Contains(s, sep)
    THEN CHOOSE i \in 1..(Len(s) + 1) :
            MatchAt(s, i, sep) /\ \A j \in 1..(i - 1) : ~MatchAt(s, j, sep)
    ELSE 0

\* s.split(sep)[0]
SplitHead(s, sep) ==
    IF Find(s, sep) = 0 THEN s ELSE SubSeq(s, 1, Find(s, sep) - 1)

\* s.split(sep)[1], for s containing sep
SplitSecond(s, sep) ==
    SplitHead(SubSeq(s, Find(s, sep) + Len(sep), Len(s)), sep)

\* Python's None where the other values are dicts (records)
Absent == [absent |-> TRUE]

\* the documents json.loads accepts among the texts considered, with their values
JsonDocs ==
    [t \in {"{\"plan_key\": \"inflation\"}", "{\"custom_series\": [\"UNRATE\"]}", "{}", "null"} |->
        CASE t = "{\"plan_key\": \"inflation\"}" -> Decision("inflation", "", <<>>, FALSE, FALSE)
          [] t = "{\"custom_series\": [\"UNRATE\"]}" -> Decision("", "", <<"UNRATE">>, FALSE, FALSE)
          [] t = "{}" -> NoDecision
          [] t = "null" -> Absent]

\* json.loads(text): ok = FALSE stands for json.JSONDecodeError
JsonLoads(text) ==
    IF text \in DOMAIN JsonDocs
    THEN [ok |-> TRUE, val |-> JsonDocs[text]]
    ELSE [ok |-> FALSE, val |-> Absent]

\* _parse_response answering an empty dict where the code gives up
ParseResponseLenient(text) ==
    LET direct == JsonLoads(Strip(text))
        inner == IF Contains(text, FenceJson)
                 THEN SplitHead(SplitSecond(text, FenceJson), Fence)
                 ELSE IF Contains(text, Fence)
                      THEN SplitHead(SplitSecond(text, Fence), Fence)
                      ELSE text
        fenced == JsonLoads(Strip(inner))
    IN IF direct.ok THEN direct.val
       ELSE IF fenced.ok THEN fenced.val ELSE NoDecision

\* LLMRouter._parse_response
ParseResponse(text) ==
    LET direct == JsonLoads(Strip(text))
        inner == IF Contains(text, FenceJson)
                 THEN SplitHead(SplitSecond(text, FenceJson), Fence)
                 ELSE IF Contains(text, Fence)
                      THEN SplitHead(SplitSecond(text, Fence), Fence)
                      ELSE text
        fenced == JsonLoads(Strip(inner))
    IN IF direct.ok THEN direct.val
       ELSE IF fenced.ok THEN fenced.val ELSE Absent

\* texts Gemini can answer with
ResponseTexts ==
    {"{\"plan_key\": \"inflation\"}",
     " {\"custom_series\": [\"UNRATE\"]}\n",
     "~~~json\n{\"plan_key\": \"inflation\"}\n~~~",
     "~~~\n{\"plan_key\": \"inflation\"}\n~~~",
     "Here:\n~~~json\n{}\n~~~ done",
     "null",
     "sorry",
     "~~~json\nsorry\n~~~",
     "~~~json~~~",
     ""}

\* LLMRouter._set_cache; the dict is kept in timestamp order
LLMSetCache(c, key, res) ==
    LET kept == SelectSeq(c, LAMBDA e : e.key # key)
        added == Append(kept, [key |-> key, result |-> res])
    IN IF Len(added) > LLMCacheLimit
       THEN SubSeq(added, LLMEvictCount + 1, Len(added))
       ELSE added

\* cache_key in _routing_cache
LLMCacheHas(c, key) == \E i \in 1..Len(c) : c[i].key = key

\* _routing_cache[cache_key][0]
LLMCacheValue(c, key) == c[CHOOSE i \in 1..Len(c) : c[i].key = key].result

\* del _routing_cache[cache_key]
LLMCacheDelete(c, key) == SelectSeq(c, LAMBDA e : e.key # key)

\* what a route() call has done so far: the module's _routing_cache, the number
\* of urlopen attempts, how many of them succeeded, the text received, and the
\* value returned
LLMFrame(c) ==
    [routing_cache |-> c, attempts |-> 0, successes |-> 0, text |-> None, ret |-> Absent]

LLMQueries == {"What is inflation?", "dot plot"}

\* the _routing_cache contents a call can find
LLMCaches ==
    {<<>>,
     <<[key |-> "what is inflation", result |-> Decision("inflation", "", <<>>, FALSE, FALSE)]>>,
     <<[key |-> "dot plot", result |-> Decision("", "", <<"UNRATE">>, FALSE, FALSE)],
       [key |-> "what is inflation", result |-> Decision("inflation", "", <<>>, FALSE, FALSE)]>>}

LLMInputs ==
    {[query |-> q, available |-> a, routing_cache |-> c] :
        q \in LLMQueries, a \in BOOLEAN, c \in LLMCaches}

InitLLM ==
    /\ RouterIdle
    /\ env = [gemini |-> FALSE, oldllm |-> FALSE, health |-> FALSE]
    /\ vin \in LLMInputs
    /\ vout = LLMFrame(vin.routing_cache)
    /\ vpc = "in"

\* route(): availability check and decision-cache lookup
LLMStart ==
    /\ vpc = "in"
    /\ LET key == LLMCacheKey(vin.query)
       IN IF ~vin.available
          THEN /\ vout' = [vout EXCEPT !.ret = Absent]
               /\ vpc' = "out"
          ELSE IF LLMCacheHas(vout.routing_cache, key)
          THEN \/ \* datetime.now() - timestamp < _routing_cache_ttl
                  /\ vout' = [vout EXCEPT !.ret = LLMCacheValue(vout.routing_cache, key)]
                  /\ vpc' = "out"
               \/ \* the entry has expired
                  /\ vout' = [vout EXCEPT
                                 !.routing_cache = LLMCacheDelete(vout.routing_cache, key)]
                  /\ vpc' = "call"
          ELSE /\ vpc' = "call"
               /\ UNCHANGED vout
    /\ UNCHANGED <<vin, rvars>>

\* one iteration of the loop of _call_gemini
GeminiAttempt ==
    /\ vpc = "call"
    /\ vout.attempts < GeminiRetries
    /\ \/ \* urlopen answers and the text is extracted
          \E t \in ResponseTexts :
             /\ vout' = [vout EXCEPT !.attempts = @ + 1, !.successes = @ + 1, !.text = t]
             /\ vpc' = "parse"
       \/ \* urlopen or the extraction raises
          \* "if attempt == retries - 1: return None", else the loop goes on
          /\ vout' = [vout EXCEPT !.attempts = @ + 1]
          /\ vpc' = IF vout.attempts = GeminiRetries - 1 THEN "out" ELSE "call"
    /\ UNCHANGED <<vin, rvars>>

\* route(): parse the response, cache and return
LLMParse ==
    /\ vpc = "parse"
    /\ LET parsed == ParseResponse(vout.text)
       IN IF parsed = Absent
          THEN vout' = [vout EXCEPT !.ret = Absent]
          ELSE vout' = [vout EXCEPT
                           !.ret = parsed,
                           !.routing_cache =
                               LLMSetCache(vout.routing_cache, LLMCacheKey(vin.query), parsed)]
    /\ vpc' = "out"
    /\ UNCHANGED <<vin, rvars>>

NextLLM == LLMStart \/ GeminiAttempt \/ LLMParse

SpecLLM == InitLLM /\ [][NextLLM]_vars

\* the response texts that are JSON neither directly nor inside a fence
UnparseableTexts == {"sorry", "~~~json\nsorry\n~~~", "~~~json~~~", ""}

\* C13: when every attempt failed or the response parses neither directly nor
\* inside a fence, LLMRouter.route ends by returning None (no exception leaves
\* it); it makes at most 2 attempts, none after a successful one, and on
\* failure the decision cache holds no entry it did not hold before.
C13_LLMRouteFailsToNone ==
    vpc = "out" =>
        LET failed == \/ (vout.attempts > 0 /\ vout.successes = 0)
                      \/ vout.text \in UnparseableTexts
        IN /\ vout.attempts <= 2
           /\ vout.successes <= 1
           /\ vout.successes = 1 => vout.text # None
           /\ failed => /\ vout.ret = Absent
                        /\ Range(vout.routing_cache) \subseteq Range(vin.routing_cache)

\* both attempts failed; or the second attempt answered an unparseable text
C13_Witness ==
    /\ vpc = "out"
    /\ vout.attempts = 2
    /\ vout.text = "~~~json\nsorry\n~~~"
    /\ vout.ret = Absent
    /\ vin.routing_cache # <<>>

-----------------------------------------------------------------------------
(* Transforms (processing/transforms.py) *)

\* SERIES_DB (registry/series_registry.py): <<id, data_type, show_yoy>>
SERIES_DB ==
    <<
       <<"PAYEMS", "level", FALSE>>,
       <<"UNRATE", "rate", FALSE>>,
       <<"A191RO1Q156NBEA", "growth_rate", FALSE>>,
       <<"CPIAUCSL", "index", TRUE>>,
       <<"CPILFESL", "index", TRUE>>,
       <<"FEDFUNDS", "rate", FALSE>>,
       <<"DGS10", "rate", FALSE>>,
       <<"DGS2", "rate", FALSE>>,
       <<"MORTGAGE30US", "rate", FALSE>>,
       <<"T10Y2Y", "spread", FALSE>>,
       <<"SAHMREALTIME", "spread", FALSE>>,
       <<"ICSA", "level", FALSE>>,
       <<"CIVPART", "rate", FALSE>>,
       <<"LNS12300060", "rate", FALSE>>,
       <<"PCEPILFE", "index", TRUE>>,
       <<"PCEPI", "index", TRUE>>,
       <<"UMCSENT", "index", FALSE>>,
       <<"RSAFS", "level", TRUE>>,
       <<"PSAVERT", "rate", FALSE>>,
       <<"GDPNOW", "growth_rate", FALSE>>,
       <<"CSUSHPINSA", "index", TRUE>>,
       <<"HOUST", "level", FALSE>>,
       <<"A191RL1Q225SBEA", "growth_rate", FALSE>>,
       <<"PB0000031Q225SBEA", "growth_rate", FALSE>>,
       <<"A191RL1A225NBEA", "growth_rate", FALSE>>,
       <<"GDPC1", "level", FALSE>>,
       <<"JTSJOL", "level", FALSE>>,
       <<"LNS11300060", "rate", FALSE>>,
       <<"LNS11300000", "rate", FALSE>>,
       <<"MANEMP", "level", FALSE>>,
       <<"U6RATE", "rate", FALSE>>,
       <<"CUSR0000SAH1", "index", TRUE>>,
       <<"CUSR0000SEHA", "index", TRUE>>,
       <<"RSXFS", "level", TRUE>>,
       <<"SP500", "index", FALSE>>,
       <<"DCOILWTICO", "level", FALSE>>,
       <<"DCOILBRENTEU", "level", FALSE>>,
       <<"CES0500000003", "level", TRUE>>,
       <<"BOPGSTB", "level", FALSE>>,
       <<"IMPGS", "level", FALSE>>,
       <<"EXPGS", "level", FALSE>>,
       <<"IMPCH", "level", FALSE>>,
       <<"EXPCH", "level", FALSE>>,
       <<"CLVMNACSCAB1GQEA19", "level", FALSE>>,
       <<"LRHUTTTTEZM156S", "rate", FALSE>>,
       <<"EA19CPALTT01GYM", "growth_rate", FALSE>>,
       <<"LNS14000002", "rate", FALSE>>,
       <<"LNS12300062", "rate", FALSE>>,
       <<"LNS11300002", "rate", FALSE>>,
       <<"JTSHIL", "level", FALSE>>,
       <<"JTSQUL", "level", FALSE>>,
       <<"JTSQUR", "rate", FALSE>>,
       <<"JTSLDL", "level", FALSE>>,
       <<"JTSJOR", "rate", FALSE>>,
       <<"JTSHIR", "rate", FALSE>>,
       <<"JTSTSL", "level", FALSE>>,
       <<"A006RE", "growth_rate", FALSE>>,
       <<"DPCERE", "growth_rate", FALSE>>,
       <<"A019RE", "growth_rate", FALSE>>,
       <<"A822RE", "growth_rate", FALSE>>,
       <<"A014RE", "growth_rate", FALSE>>,
       <<"A008RX", "level", FALSE>>,
       <<"A011RE", "growth_rate", FALSE>>,
       <<"CUSR0000SAF1", "index", TRUE>>,
       <<"CUSR0000SA0E", "index", TRUE>>,
       <<"CUSR0000SACL1E", "index", TRUE>>,
       <<"CUSR0000SASLE", "index", TRUE>>,
       <<"CUSR0000SAF11", "index", TRUE>>,
       <<"CUSR0000SEFV", "index", TRUE>>,
       <<"WPSFD4131", "index", TRUE>>,
       <<"WPUFD49116", "index", TRUE>>,
       <<"WPU00000000", "index", TRUE>>,
       <<"LNS13023621", "level", FALSE>>,
       <<"LNS13023653", "level", FALSE>>,
       <<"LNS13023705", "level", FALSE>>,
       <<"LNS13023557", "level", FALSE>>,
       <<"LNS13008276", "level", FALSE>>,
       <<"LNS13008275", "level", FALSE>>,
       <<"LNS12032194", "level", FALSE>>,
       <<"LNU05026639", "level", FALSE>>,
       <<"LEU0252881600Q", "level", FALSE>>,
       <<"ECIWAG", "index", TRUE>>,
       <<"INDPRO", "index", TRUE>>,
       <<"TCU", "rate", FALSE>>
    >>

SeriesIds == {SERIES_DB[i][1] : i \in 1..Len(SERIES_DB)}

\* registry.get_series(series_id), for an id of the catalog
GetSeries(series_id) ==
    LET i == CHOOSE j \in 1..Len(SERIES_DB) : SERIES_DB[j][1] = series_id
    IN [id |-> SERIES_DB[i][1], data_type |-> SERIES_DB[i][2], show_yoy |-> SERIES_DB[i][3]]

\* should_apply_yoy letting the plan's override decide for every data type
ShouldApplyYoyOverrideFirst(series_id, explicit_show_yoy) ==
    IF explicit_show_yoy # None
    THEN explicit_show_yoy = "True"
    ELSE IF series_id \in SeriesIds
         THEN LET series_info == GetSeries(series_id)
              IN IF series_info.data_type \in {"rate", "growth_rate", "spread"} THEN FALSE
                 ELSE IF series_info.data_type = "index" THEN TRUE
                 ELSE series_info.show_yoy
         ELSE FALSE

\* should_apply_yoy; explicit_show_yoy is "True", "False" or None
ShouldApplyYoy(series_id, explicit_show_yoy) ==
    IF series_id \in SeriesIds
    THEN LET series_info == GetSeries(series_id)
         IN IF series_info.data_type \in {"rate", "growth_rate", "spread"} THEN FALSE
            ELSE IF series_info.data_type = "index" THEN TRUE
            ELSE IF explicit_show_yoy # None THEN explicit_show_yoy = "True"
            ELSE series_info.show_yoy
    ELSE IF explicit_show_yoy # None THEN explicit_show_yoy = "True"
    ELSE FALSE

YoyInputs ==
    [series_id : SeriesIds \cup {"NOT_IN_CATALOG", ""},
     explicit_show_yoy : {"True", "False", None}]

InitShouldApplyYoy ==
    /\ RouterIdle
    /\ env = [gemini |-> FALSE, oldllm |-> FALSE, health |-> FALSE]
    /\ vin \in YoyInputs
    /\ vout = None
    /\ vpc = "in"

ApplyShouldApplyYoy ==
    /\ vpc = "in"
    /\ vout' = ShouldApplyYoy(vin.series_id, vin.explicit_show_yoy)
    /\ vpc' = "out"
    /\ UNCHANGED <<vin, rvars>>

NextShouldApplyYoy == ApplyShouldApplyYoy

SpecShouldApplyYoy == InitShouldApplyYoy /\ [][NextShouldApplyYoy]_vars

\* the data kind of a catalogued series
DataKind(series_id) ==
    SERIES_DB[CHOOSE j \in 1..Len(SERIES_DB) : SERIES_DB[j][1] = series_id][2]

\* the default show_yoy of a catalogued series
DefaultShowYoy(series_id) ==
    SERIES_DB[CHOOSE j \in 1..Len(SERIES_DB) : SERIES_DB[j][1] = series_id][3]

\* C14: should_apply_yoy returns false for rate, growth_rate and spread series,
\* true for index series, and for level series the override when provided,
\* otherwise the series' default; for an id not in the catalog it returns the
\* override when provided, otherwise false.
C14_YoyByDataKind ==
    vpc = "out" =>
        LET id == vin.series_id
            override == vin.explicit_show_yoy
        IN IF id \in SeriesIds
           THEN /\ DataKind(id) \in {"rate", "growth_rate", "spread"} => vout = FALSE
                /\ DataKind(id) = "index" => vout = TRUE
                /\ DataKind(id) = "level" =>
                      vout = (IF override = None THEN DefaultShowYoy(id) ELSE override = "True")
                /\ DataKind(id) \in {"rate", "growth_rate", "spread", "index", "level"}
           ELSE vout = (IF override = None THEN FALSE ELSE override = "True")

\* an index series whose default is False, asked with the override False
C14_Witness ==
    /\ vpc = "out"
    /\ vin.series_id \in SeriesIds
    /\ DataKind(vin.series_id) = "index"
    /\ ~DefaultShowYoy(vin.series_id)
    /\ vin.explicit_show_yoy = "False"
    /\ vout = TRUE

-----------------------------------------------------------------------------
(* Dates: datetime.strptime / strftime / relativedelta as transforms.py uses them *)

Digits == "0123456789"

DigitSet == CharsOf(Digits)

\* the digit character of n in 0..9
DigitStr(n) == CharAt(Digits, n + 1)

\* the value of a digit character
DigitVal(c) == (CHOOSE i \in 1..10 : CharAt(Digits, i) = c) - 1

AllDigits(s) == s # "" /\ \A i \in 1..Len(s) : CharAt(s, i) \in DigitSet

RECURSIVE StrToNat(_)
\* int(s) for a string of digits
StrToNat(s) ==
    IF s = "" THEN 0
    ELSE StrToNat(SubSeq(s, 1, Len(s) - 1)) * 10 + DigitVal(CharAt(s, Len(s)))

RECURSIVE NumStr(_, _)
\* n printed with at least `width` digits, zero padded (%Y, %m, %d of strftime)
NumStr(n, width) ==
    IF n < 10 /\ width <= 1 THEN DigitStr(n)
    ELSE NumStr(n \div 10, width - 1) \o DigitStr(n % 10)

IsLeap(y) == (y % 4 = 0 /\ y % 100 # 0) \/ y % 400 = 0

DaysInMonth(y, m) ==
    IF m = 2 THEN (IF IsLeap(y) THEN 29 ELSE 28)
    ELSE IF m \in {4, 6, 9, 11} THEN 30 ELSE 31

RECURSIVE DaysBeforeMonth(_, _)
DaysBeforeMonth(y, m) ==
    IF m <= 1 THEN 0 ELSE DaysBeforeMonth(y, m - 1) + DaysInMonth(y, m - 1)

DaysBeforeYear(y) ==
    (y - 1) * 365 + ((y - 1) \div 4) - ((y - 1) \div 100) + ((y - 1) \div 400)

\* datetime.toordinal(); (a - b).days is ToOrdinal(a) - ToOrdinal(b)
ToOrdinal(d) == DaysBeforeYear(d.year) + DaysBeforeMonth(d.year, d.month) + d.day

\* the three fields of "Y-M-D", when s has exactly two hyphens
DateFields(s) ==
    LET rest == SubSeq(s, Find(s, "-") + 1, Len(s))
    IN <<SplitHead(s, "-"), SplitHead(rest, "-"), SubSeq(rest, Find(rest, "-") + 1, Len(rest))>>

\* datetime.strptime(s, '%Y-%m-%d') succeeds
ParseOk(s) ==
    /\ Find(s, "-") # 0
    /\ Find(SubSeq(s, Find(s, "-") + 1, Len(s)), "-") # 0
    /\ LET f == DateFields(s)
       IN /\ AllDigits(f[1]) /\ Len(f[1]) = 4 /\ StrToNat(f[1]) >= 1
          /\ AllDigits(f[2]) /\ Len(f[2]) <= 2 /\ StrToNat(f[2]) \in 1..12
          /\ AllDigits(f[3]) /\ Len(f[3]) <= 2
          /\ StrToNat(f[3]) \in 1..DaysInMonth(StrToNat(f[1]), StrToNat(f[2]))

\* datetime.strptime(s, '%Y-%m-%d'), for a string it accepts
ParseDate(s) ==
    LET f == DateFields(s)
    IN [year |-> StrToNat(f[1]), month |-> StrToNat(f[2]), day |-> StrToNat(f[3])]

\* d.strftime('%Y-%m-%d')
FormatDate(d) == NumStr(d.year, 4) \o "-" \o NumStr(d.month, 2) \o "-" \o NumStr(d.day, 2)

\* d - relativedelta(years=1): same month and day one year earlier, the day
\* clipped to the length of that month
YearBefore(d) ==
    [year |-> d.year - 1, month |-> d.month,
     day |-> IF d.day > DaysInMonth(d.year - 1, d.month)
             THEN DaysInMonth(d.year - 1, d.month) ELSE d.day]

-----------------------------------------------------------------------------
(* calculate_yoy and calculate_absolute_change (processing/transforms.py) *)

\* _find_closest_value(..., max_gap_days=45)
MaxGapDays == 45

\* the default of the `periods` argument
DefaultPeriods == 12

Abs(n) == IF n < 0 THEN -n ELSE n

MinOf(a, b) == IF a < b THEN a ELSE b

\* zip(parsed_dates, values): pairs up to the shorter list
ZipDates(dates, values) ==
    [i \in 1..MinOf(Len(dates), Len(values)) |-> [date |-> ParseDate(dates[i]), value |-> values[i]]]

RECURSIVE InsertSorted(_, _)
\* pair p placed after every pair of `sorted` whose date is not later
InsertSorted(sorted, p) ==
    IF sorted = <<>> THEN <<p>>
    ELSE IF ToOrdinal(sorted[Len(sorted)].date) <= ToOrdinal(p.date)
         THEN Append(sorted, p)
         ELSE Append(InsertSorted(SubSeq(sorted, 1, Len(sorted) - 1), p), sorted[Len(sorted)])

RECURSIVE SortPairs(_)
\* sorted(pairs, key=lambda x: x[0]) (stable)
SortPairs(pairs) ==
    IF pairs = <<>> THEN <<>>
    ELSE InsertSorted(SortPairs(SubSeq(pairs, 1, Len(pairs) - 1)), pairs[Len(pairs)])

\* date_value_map as pairs: for each date the value of its last occurrence
LastPerDate(pairs) ==
    SelectSeq([i \in 1..Len(pairs) |->
                  [date |-> pairs[i].date, value |-> pairs[i].value,
                   last |-> \A j \in (i + 1)..Len(pairs) : pairs[j].date # pairs[i].date]],
              LAMBDA p : p.last)

\* bisect.bisect_left(sorted_dates, target): number of dates before target
BisectLeft(sorted, target) ==
    Cardinality({i \in 1..Len(sorted) : ToOrdinal(sorted[i].date) < ToOrdinal(target)})

\* _find_closest_value: the position in sorted of the observation it
\* returns, 0 when it returns None (candidates are idx - 1 and idx, the later
\* one winning only with a strictly smaller gap)
ClosestIndex(sorted, target) ==
    LET idx == BisectLeft(sorted, target)
        gap(i) == Abs(ToOrdinal(sorted[i].date) - ToOrdinal(target))
        first == IF idx >= 1 THEN idx ELSE 0
        best == IF idx + 1 <= Len(sorted) /\ (first = 0 \/ gap(idx + 1) < gap(first))
                THEN idx + 1 ELSE first
    IN IF best # 0 /\ gap(best) <= MaxGapDays THEN best ELSE 0

\* what a transform returns: the two lists, values as exact fractions num/den,
\* or the exception that left it
TransformResult(points) ==
    [raised |-> FALSE,
     dates |-> [i \in 1..Len(points) |-> points[i].date],
     values |-> [i \in 1..Len(points) |-> points[i].value]]

TransformRaised == [raised |-> TRUE, dates |-> <<>>, values |-> <<>>]

\* ((current_value - prior_value) / abs(prior_value)) * 100, as a fraction
PercentChange(current_value, prior_value) ==
    [num |-> (current_value - prior_value) * 100, den |-> Abs(prior_value)]

\* current_value - prior_value
AbsoluteChange(current_value, prior_value) ==
    [num |-> current_value - prior_value, den |-> 1]

\* calculate_yoy(dates, values, periods)
CalculateYoy(dates, values, periods) ==
    IF Len(values) <= periods THEN TransformResult(<<>>)
    ELSE IF \E i \in 1..Len(dates) : ~ParseOk(dates[i]) THEN TransformRaised
    ELSE LET sorted == SortPairs(LastPerDate(ZipDates(dates, values)))
             prior(i) == ClosestIndex(sorted, YearBefore(sorted[i].date))
             kept == SelectSeq([i \in 1..Len(sorted) |->
                                   [date |-> FormatDate(sorted[i].date),
                                    keep |-> prior(i) # 0 /\ sorted[prior(i)].value # 0,
                                    value |-> IF prior(i) # 0 /\ sorted[prior(i)].value # 0
                                              THEN PercentChange(sorted[i].value, sorted[prior(i)].value)
                                              ELSE [num |-> 0, den |-> 1]]],
                               LAMBDA p : p.keep)
         IN TransformResult(kept)

\* calculate_absolute_change(dates, values, periods)
CalculateAbsoluteChange(dates, values, periods) ==
    IF Len(values) <= periods THEN TransformResult(<<>>)
    ELSE IF \E i \in 1..Len(dates) : ~ParseOk(dates[i]) THEN TransformRaised
    ELSE LET sorted == SortPairs(ZipDates(dates, values))
             prior(i) == ClosestIndex(sorted, YearBefore(sorted[i].date))
             kept == SelectSeq([i \in 1..Len(sorted) |->
                                   [date |-> FormatDate(sorted[i].date),
                                    keep |-> prior(i) # 0,
                                    value |-> IF prior(i) # 0
                                              THEN AbsoluteChange(sorted[i].value, sorted[prior(i)].value)
                                              ELSE [num |-> 0, den |-> 1]]],
                               LAMBDA p : p.keep)
         IN TransformResult(kept)

\* "YYYY-MM-01" for the k-th month (k = 0, 1, ...) counted from month m0 of year y0
MonthString(y0, m0, k) ==
    FormatDate([year |-> y0 + ((m0 - 1 + k) \div 12), month |-> ((m0 - 1 + k) % 12) + 1, day |-> 1])

\* number of months a monthly test series spans
SeriesMonths == 26

\* a monthly series of SeriesMonths months from (y0, m0) with month number
\* `missing` left out; the observation of month k has the value 100 + k
MonthlyGapSeries(y0, m0, missing) ==
    LET ks == SelectSeq([i \in 1..SeriesMonths |-> i - 1], LAMBDA k : k + 1 # missing)
    IN [dates |-> [i \in 1..Len(ks) |-> MonthString(y0, m0, ks[i])],
        values |-> [i \in 1..Len(ks) |-> 100 + ks[i]]]

\* fourteen yearly observations from 2010
YearlyDates == [i \in 1..14 |-> FormatDate([year |-> 2009 + i, month |-> 1, day |-> 1])]

\* inputs of the kind the callers do not rule out
MalformedSeries ==
    {[dates |-> <<>>, values |-> <<>>],
     [dates |-> <<"2020-01-01", "2021-01-01">>, values |-> <<1, 2>>],
     [dates |-> <<"2020-01-01", "2021-01-01">>, values |-> [i \in 1..14 |-> i]],
     [dates |-> YearlyDates, values |-> [i \in 1..14 |-> 0]],
     [dates |-> YearlyDates, values |-> [i \in 1..14 |-> IF i = 3 THEN 0 ELSE i]],
     [dates |-> [YearlyDates EXCEPT ![5] = "junk"], values |-> [i \in 1..14 |-> i]],
     [dates |-> [YearlyDates EXCEPT ![14] = "2023-02-30"], values |-> [i \in 1..14 |-> i]],
     [dates |-> [YearlyDates EXCEPT ![2] = "2010-01-01"], values |-> [i \in 1..14 |-> i]]}

TransformInputs ==
    {[op |-> op, kind |-> "monthly_gap", missing |-> k,
      dates |-> MonthlyGapSeries(st[1], st[2], k).dates,
      values |-> MonthlyGapSeries(st[1], st[2], k).values, periods |-> DefaultPeriods] :
        op \in {"yoy", "absolute_change"}, k \in 1..SeriesMonths,
        st \in {<<2020, 1>>, <<2019, 3>>}}
    \cup
    {[op |-> op, kind |-> "malformed", missing |-> 0,
      dates |-> m.dates, values |-> m.values, periods |-> DefaultPeriods] :
        op \in {"yoy", "absolute_change"}, m \in MalformedSeries}

InitTransform ==
    /\ RouterIdle
    /\ env = [gemini |-> FALSE, oldllm |-> FALSE, health |-> FALSE]
    /\ vin \in TransformInputs
    /\ vout = TransformResult(<<>>)
    /\ vpc = "in"

ApplyTransform ==
    /\ vpc = "in"
    /\ vout' = IF vin.op = "yoy"
               THEN CalculateYoy(vin.dates, vin.values, vin.periods)
               ELSE CalculateAbsoluteChange(vin.dates, vin.values, vin.periods)
    /\ vpc' = "out"
    /\ UNCHANGED <<vin, rvars>>

NextTransform == ApplyTransform

SpecTransform == InitTransform /\ [][NextTransform]_vars

\* the positions of the input holding the date string d
InputAt(d) == {i \in 1..Len(vin.dates) : vin.dates[i] = d}

\* the date string one year before the date string d
YearEarlier(d) == FormatDate(YearBefore(ParseDate(d)))

\* C15: for a monthly series with one month missing, calculate_yoy outputs a
\* point for every date whose year-earlier observation exists, computed against
\* exactly that observation, and no point for any other date.
C15_YoyNeverMisaligned ==
    (vpc = "out" /\ vin.op = "yoy" /\ vin.kind = "monthly_gap") =>
        /\ ~vout.raised
        /\ \A i \in 1..Len(vout.dates) :
              /\ InputAt(YearEarlier(vout.dates[i])) # {}
              /\ \E c \in InputAt(vout.dates[i]) : \E p \in InputAt(YearEarlier(vout.dates[i])) :
                    vout.values[i] = PercentChange(vin.values[c], vin.values[p])
        /\ \A c \in 1..Len(vin.dates) :
              InputAt(YearEarlier(vin.dates[c])) # {} => vin.dates[c] \in Range(vout.dates)

\* C16: calculate_yoy and calculate_absolute_change never raise: for any input
\* they return a (possibly empty) series.
C16_TransformsNeverRaise ==
    vpc = "out" => ~vout.raised

-----------------------------------------------------------------------------
(* SeriesRegistry._normalize applied to its own output *)

NormalizePrefixes ==
    {"", "show me ", "show me show me ", "What is ", "how is ", "what is the ", "is the "}

NormalizeCores == {"inflation", "new york's economy", "us v china", "the fed", "rising"}

NormalizeSuffixes == {"", " doing", " doing today", " right now?", "?", " lately."}

NormalizeInputs ==
    {p \o c \o s : p \in NormalizePrefixes, c \in NormalizeCores, s \in NormalizeSuffixes}

InitNormalize ==
    /\ RouterIdle
    /\ env = [gemini |-> FALSE, oldllm |-> FALSE, health |-> FALSE]
    /\ vin \in NormalizeInputs
    /\ vout = [once |-> None, twice |-> None]
    /\ vpc = "in"

\* q1 = registry._normalize(query)
NormalizeOnce ==
    /\ vpc = "in"
    /\ vout' = [vout EXCEPT !.once = Normalize(vin)]
    /\ vpc' = "out"
    /\ UNCHANGED <<vin, rvars>>

\* q2 = registry._normalize(q1)
NormalizeAgain ==
    /\ vpc = "out"
    /\ vout' = [vout EXCEPT !.twice = Normalize(vout.once)]
    /\ vpc' = "again"
    /\ UNCHANGED <<vin, rvars>>

NextNormalize == NormalizeOnce \/ NormalizeAgain

SpecNormalize == InitNormalize /\ [][NextNormalize]_vars

\* C17: query normalization is idempotent: normalizing an already normalized
\* query returns the same string.
C17_NormalizeIdempotent ==
    vpc = "again" => vout.twice = vout.once

-----------------------------------------------------------------------------
(* Chart auto-grouping: processing/grouping.py *)

\* SERIES_DB again, with the fields grouping reads: <<id, name, unit, frequency>>
SERIES_ATTRS ==
    <<
       <<"PAYEMS", "Nonfarm Payrolls", "Thousands of Persons", "monthly">>,
       <<"UNRATE", "Unemployment Rate", "Percent", "monthly">>,
       <<"A191RO1Q156NBEA", "Real GDP Growth", "Percent Change", "monthly">>,
       <<"CPIAUCSL", "Consumer Price Index", "Index 1982-84=100", "monthly">>,
       <<"CPILFESL", "Core CPI", "Index 1982-84=100", "monthly">>,
       <<"FEDFUNDS", "Federal Funds Rate", "Percent", "monthly">>,
       <<"DGS10", "10-Year Treasury Rate", "Percent", "monthly">>,
       <<"DGS2", "2-Year Treasury Rate", "Percent", "monthly">>,
       <<"MORTGAGE30US", "30-Year Mortgage Rate", "Percent", "monthly">>,
       <<"T10Y2Y", "Treasury Yield Spread (10Y-2Y)", "Percent", "monthly">>,
       <<"SAHMREALTIME", "Sahm Rule Recession Indicator", "Percentage Points", "monthly">>,
       <<"ICSA", "Initial Jobless Claims", "Number", "weekly">>,
       <<"CIVPART", "Labor Force Participation Rate", "Percent", "monthly">>,
       <<"LNS12300060", "Prime-Age Employment-Population Ratio", "Percent", "monthly">>,
       <<"PCEPILFE", "Core PCE Inflation", "Index", "monthly">>,
       <<"PCEPI", "PCE Inflation", "Index", "monthly">>,
       <<"UMCSENT", "Consumer Sentiment", "Index 1966:Q1=100", "monthly">>,
       <<"RSAFS", "Retail Sales", "Millions of Dollars", "monthly">>,
       <<"PSAVERT", "Personal Savings Rate", "Percent", "monthly">>,
       <<"GDPNOW", "GDPNow Estimate", "Percent", "monthly">>,
       <<"CSUSHPINSA", "Case-Shiller Home Price Index", "Index", "monthly">>,
       <<"HOUST", "Housing Starts", "Thousands of Units", "monthly">>,
       <<"A191RL1Q225SBEA", "Real GDP Growth Rate", "Percent", "quarterly">>,
       <<"PB0000031Q225SBEA", "Core GDP (Final Sales to Private Domestic Purchasers)", "Percent", "quarterly">>,
       <<"A191RL1A225NBEA", "Real GDP Growth (Annual)", "Percent", "annual">>,
       <<"GDPC1", "Real GDP Level (Billions of 2017 Dollars)", "Billions of Chained 2017 Dollars", "quarterly">>,
       <<"JTSJOL", "Job Openings (JOLTS)", "Level in Thousands", "monthly">>,
       <<"LNS11300060", "Prime-Age Labor Force Participation Rate", "Percent", "monthly">>,
       <<"LNS11300000", "Labor Force Participation Rate (All)", "Percent", "monthly">>,
       <<"MANEMP", "Manufacturing Employment", "Thousands of Persons", "monthly">>,
       <<"U6RATE", "U-6 Unemployment Rate (Broad)", "Percent", "monthly">>,
       <<"CUSR0000SAH1", "CPI: Shelter", "Index", "monthly">>,
       <<"CUSR0000SEHA", "CPI: Rent of Primary Residence", "Index", "monthly">>,
       <<"RSXFS", "Retail Sales (Ex. Food Services)", "Millions of Dollars", "monthly">>,
       <<"SP500", "S&P 500 Index", "Index", "monthly">>,
       <<"DCOILWTICO", "WTI Crude Oil Price", "Dollars per Barrel", "monthly">>,
       <<"DCOILBRENTEU", "Brent Crude Oil Price", "Dollars per Barrel", "monthly">>,
       <<"CES0500000003", "Average Hourly Earnings (Private)", "Dollars per Hour", "monthly">>,
       <<"BOPGSTB", "Trade Balance (Goods & Services)", "Millions of Dollars", "monthly">>,
       <<"IMPGS", "Imports of Goods & Services", "Billions of Dollars", "monthly">>,
       <<"EXPGS", "Exports of Goods & Services", "Billions of Dollars", "monthly">>,
       <<"IMPCH", "Imports from China", "Millions of Dollars", "monthly">>,
       <<"EXPCH", "Exports to China", "Millions of Dollars", "monthly">>,
       <<"CLVMNACSCAB1GQEA19", "Eurozone Real GDP", "Millions of Chained 2015 Euros", "quarterly">>,
       <<"LRHUTTTTEZM156S", "Eurozone Unemployment Rate", "Percent", "monthly">>,
       <<"EA19CPALTT01GYM", "Eurozone Inflation Rate", "Percent", "monthly">>,
       <<"LNS14000002", "Unemployment Rate: Women", "Percent", "monthly">>,
       <<"LNS12300062", "Employment-Population Ratio: Women (Prime Age)", "Percent", "monthly">>,
       <<"LNS11300002", "Labor Force Participation Rate: Women", "Percent", "monthly">>,
       <<"JTSHIL", "JOLTS Hires (Total)", "Level in Thousands", "monthly">>,
       <<"JTSQUL", "JOLTS Quits (Total)", "Level in Thousands", "monthly">>,
       <<"JTSQUR", "JOLTS Quits Rate", "Percent", "monthly">>,
       <<"JTSLDL", "JOLTS Layoffs & Discharges", "Level in Thousands", "monthly">>,
       <<"JTSJOR", "JOLTS Job Openings Rate", "Percent", "monthly">>,
       <<"JTSHIR", "JOLTS Hires Rate", "Percent", "monthly">>,
       <<"JTSTSL", "JOLTS Total Separations", "Level in Thousands", "monthly">>,
       <<"A006RE", "GDP Contribution: Private Investment", "Percentage Points", "quarterly">>,
       <<"DPCERE", "GDP Contribution: Consumer Spending", "Percentage Points", "quarterly">>,
       <<"A019RE", "GDP Contribution: Net Exports", "Percentage Points", "quarterly">>,
       <<"A822RE", "GDP Contribution: Government Spending", "Percentage Points", "quarterly">>,
       <<"A014RE", "GDP Contribution: Change in Inventories", "Percentage Points", "quarterly">>,
       <<"A008RX", "Real Nonresidential Fixed Investment", "Billions of Chained 2017 Dollars", "quarterly">>,
       <<"A011RE", "GDP Contribution: Residential Investment", "Percentage Points", "quarterly">>,
       <<"CUSR0000SAF1", "CPI: Food", "Index 1982-84=100", "monthly">>,
       <<"CUSR0000SA0E", "CPI: Energy", "Index 1982-84=100", "monthly">>,
       <<"CUSR0000SACL1E", "CPI: Commodities Less Food & Energy", "Index 1982-84=100", "monthly">>,
       <<"CUSR0000SASLE", "CPI: Services Less Energy", "Index 1982-84=100", "monthly">>,
       <<"CUSR0000SAF11", "CPI: Food at Home", "Index 1982-84=100", "monthly">>,
       <<"CUSR0000SEFV", "CPI: Food Away from Home", "Index 1982-84=100", "monthly">>,
       <<"WPSFD4131", "PPI: Final Demand", "Index Nov 2009=100", "monthly">>,
       <<"WPUFD49116", "PPI: Final Demand Less Food & Energy", "Index Nov 2009=100", "monthly">>,
       <<"WPU00000000", "PPI: All Commodities", "Index 1982=100", "monthly">>,
       <<"LNS13023621", "Unemployed: Job Losers", "Thousands", "monthly">>,
       <<"LNS13023653", "Unemployed: Temporary Layoffs", "Thousands", "monthly">>,
       <<"LNS13023705", "Unemployed: Job Leavers", "Thousands", "monthly">>,
       <<"LNS13023557", "Unemployed: Re-entrants", "Thousands", "monthly">>,
       <<"LNS13008276", "Median Unemployment Duration", "Weeks", "monthly">>,
       <<"LNS13008275", "Mean Unemployment Duration", "Weeks", "monthly">>,
       <<"LNS12032194", "Part-Time for Economic Reasons", "Thousands", "monthly">>,
       <<"LNU05026639", "Want a Job but Not Looking", "Thousands", "monthly">>,
       <<"LEU0252881600Q", "Median Usual Weekly Earnings", "Dollars", "quarterly">>,
       <<"ECIWAG", "Employment Cost Index: Wages & Salaries", "Index Dec 2005=100", "quarterly">>,
       <<"INDPRO", "Industrial Production Index", "Index 2017=100", "monthly">>,
       <<"TCU", "Capacity Utilization", "Percent", "monthly">> >>

\* registry.get_series(series_id): the SeriesInfo, or None
RegistryGetSeries(series_id) ==
    IF series_id \in SeriesIds
    THEN LET i == CHOOSE j \in 1..Len(SERIES_ATTRS) : SERIES_ATTRS[j][1] = series_id
         IN [name |-> SERIES_ATTRS[i][2], unit |-> SERIES_ATTRS[i][3],
             frequency |-> SERIES_ATTRS[i][4], data_type |-> GetSeries(series_id).data_type]
    ELSE Absent

\* EXPLICIT_PAIRS: <<series id, partner id>>
EXPLICIT_PAIRS ==
    <<
       <<"CPIAUCSL", "CPILFESL">>,
       <<"CPILFESL", "CPIAUCSL">>,
       <<"PCEPI", "PCEPILFE">>,
       <<"PCEPILFE", "PCEPI">>,
       <<"FEDFUNDS", "DGS10">>,
       <<"DGS10", "FEDFUNDS">>,
       <<"UNRATE", "U6RATE">>,
       <<"U6RATE", "UNRATE">> >>

\* NATIONAL_COUNTERPARTS: <<id suffix, national id>>
NATIONAL_COUNTERPARTS ==
    <<
       <<"UR", "UNRATE">>,
       <<"NA", "PAYEMS">> >>

MAX_TRACES == 4

SCALE_THRESHOLD == 10

\* _PAIR_TITLES: <<set of two ids, title>>
PAIR_TITLES ==
    <<
       <<{"CPIAUCSL", "CPILFESL"}, "Headline vs Core CPI">>,
       <<{"PCEPI", "PCEPILFE"}, "Headline vs Core PCE">>,
       <<{"CPIAUCSL", "PCEPI"}, "CPI vs PCE Inflation">>,
       <<{"CPILFESL", "PCEPILFE"}, "Core CPI vs Core PCE">>,
       <<{"DGS10", "FEDFUNDS"}, "Fed Funds Rate vs 10-Year Treasury">>,
       <<{"DGS2", "FEDFUNDS"}, "Fed Funds Rate vs 2-Year Treasury">>,
       <<{"DGS10", "DGS2"}, "2-Year vs 10-Year Treasury">>,
       <<{"U6RATE", "UNRATE"}, "U-3 vs U-6 Unemployment Rate">> >>

\* _STATE_NAMES: <<state code, state name>>
STATE_NAMES ==
    <<
       <<"AL", "Alabama">>, <<"AK", "Alaska">>, <<"AZ", "Arizona">>,
       <<"AR", "Arkansas">>, <<"CA", "California">>, <<"CO", "Colorado">>,
       <<"CT", "Connecticut">>, <<"DE", "Delaware">>, <<"FL", "Florida">>,
       <<"GA", "Georgia">>, <<"HI", "Hawaii">>, <<"ID", "Idaho">>,
       <<"IL", "Illinois">>, <<"IN", "Indiana">>, <<"IA", "Iowa">>,
       <<"KS", "Kansas">>, <<"KY", "Kentucky">>, <<"LA", "Louisiana">>,
       <<"ME", "Maine">>, <<"MD", "Maryland">>, <<"MA", "Massachusetts">>,
       <<"MI", "Michigan">>, <<"MN", "Minnesota">>, <<"MS", "Mississippi">>,
       <<"MO", "Missouri">>, <<"MT", "Montana">>, <<"NE", "Nebraska">>,
       <<"NV", "Nevada">>, <<"NH", "New Hampshire">>, <<"NJ", "New Jersey">>,
       <<"NM", "New Mexico">>, <<"NY", "New York">>, <<"NC", "North Carolina">>,
       <<"ND", "North Dakota">>, <<"OH", "Ohio">>, <<"OK", "Oklahoma">>,
       <<"OR", "Oregon">>, <<"PA", "Pennsylvania">>, <<"RI", "Rhode Island">>,
       <<"SC", "South Carolina">>, <<"SD", "South Dakota">>, <<"TN", "Tennessee">>,
       <<"TX", "Texas">>, <<"UT", "Utah">>, <<"VT", "Vermont">>,
       <<"VA", "Virginia">>, <<"WA", "Washington">>, <<"WV", "West Virginia">>,
       <<"WI", "Wisconsin">>, <<"WY", "Wyoming">>, <<"DC", "District of Columbia">>,
       <<"PR", "Puerto Rico">> >>

\* dict.get(key, default) on the info dict of a fetched series; a key the
\* dict does not hold is the field value None
InfoGet(info, key, default) == IF info[key] = None THEN default ELSE info[key]

\* s.endswith(k)
EndsWith(s, k) == MatchAt(s, Len(s) - Len(k) + 1, k)

\* STATE_UR_PATTERN / STATE_NA_PATTERN: ^([A-Z]{2})<suffix>$ with a two-letter suffix
StatePatternMatch(series_id, suffix) ==
    /\ Len(series_id) = 4
    /\ CharAt(series_id, 1) \in UpperSet
    /\ CharAt(series_id, 2) \in UpperSet
    /\ SubSeq(series_id, 3, 4) = suffix

\* _get_frequency(info, series_info)
GetFrequency(info, series_info) ==
    LET freq == IF series_info # Absent /\ series_info.frequency # ""
                THEN Lower(series_info.frequency)
                ELSE Lower(InfoGet(info, "frequency", "monthly"))
    IN IF Contains(freq, "quarter") THEN "quarterly"
       ELSE IF Contains(freq, "annual") \/ Contains(freq, "year") THEN "annual"
       ELSE IF Contains(freq, "week") THEN "weekly"
       ELSE IF Contains(freq, "daily") \/ Contains(freq, "day") THEN "daily"
       ELSE "monthly"

\* _get_unit_category(info, series_info)
GetUnitCategory(info, series_info) ==
    LET u1 == IF series_info # Absent THEN Lower(series_info.unit) ELSE ""
        unit == IF u1 = "" THEN Lower(InfoGet(info, "units", "")) ELSE u1
    IN IF Contains(unit, "percent") \/ Contains(unit, "rate") \/ Contains(unit, "%")
       THEN "percent"
       ELSE IF Contains(unit, "dollar") \/ Contains(unit, "$") \/ Contains(unit, "usd")
       THEN "dollars"
       ELSE IF Contains(unit, "index") THEN "index"
       ELSE IF Contains(unit, "thousand") \/ Contains(unit, "million")
               \/ Contains(unit, "billion")
       THEN "count"
       ELSE "other"

\* _extract_region(series_id, series_info)
ExtractRegion(series_id) ==
    IF StatePatternMatch(series_id, "UR") \/ StatePatternMatch(series_id, "NA")
    THEN SubSeq(series_id, 1, 2)
    ELSE "national"

\* _get_semantic_tags(series_id, name)
GetSemanticTags(series_id, name) ==
    LET name_lower == Lower(name)
        sid_lower == Lower(series_id)
    IN (IF \/ Contains(name_lower, "unemploy")
           \/ EndsWith(sid_lower, "ur")
           \/ series_id \in {"UNRATE", "U6RATE"}
        THEN {"unemployment"} ELSE {})
       \cup
       (IF \/ (Contains(name_lower, "employ") /\ ~Contains(name_lower, "unemploy"))
           \/ Contains(name_lower, "payroll")
           \/ Contains(name_lower, "nonfarm")
           \/ EndsWith(sid_lower, "na")
           \/ series_id = "PAYEMS"
        THEN {"employment"} ELSE {})
       \cup
       (IF \/ Contains(sid_lower, "cpi") \/ Contains(sid_lower, "pce")
           \/ Contains(name_lower, "inflation") \/ Contains(name_lower, "price")
        THEN {"inflation"} ELSE {})
       \cup
       (IF \/ (/\ Contains(name_lower, "rate")
               /\ \/ Contains(name_lower, "fed")
                  \/ Contains(name_lower, "treasury")
                  \/ Contains(sid_lower, "dgs"))
           \/ series_id \in {"FEDFUNDS", "DGS10", "DGS2", "DGS30"}
        THEN {"interest_rate"} ELSE {})
       \cup
       (IF Contains(sid_lower, "gdp") \/ Contains(name_lower, "gdp")
        THEN {"gdp"} ELSE {})
       \cup
       (IF \/ Contains(name_lower, "hous") \/ Contains(name_lower, "home")
           \/ Contains(name_lower, "mortgage")
        THEN {"housing"} ELSE {})

RECURSIVE MaxAbs(_)
\* max(abs(v) for v in values) if values else 0
MaxAbs(values) ==
    IF values = <<>> THEN 0
    ELSE LET rest == MaxAbs(Tail(values))
             a == Abs(Head(values))
         IN IF a > rest THEN a ELSE rest

\* _classify_series(series_id, dates, values, info); item is the fetched tuple
\* (the dates are never read by the grouping and are left out)
ClassifySeries(item) ==
    LET series_info == RegistryGetSeries(item.series_id)
        name == IF series_info # Absent THEN series_info.name
                ELSE InfoGet(item.info, "title", InfoGet(item.info, "name", item.series_id))
    IN [series_id |-> item.series_id,
        data |-> item,
        frequency |-> GetFrequency(item.info, series_info),
        unit_category |-> GetUnitCategory(item.info, series_info),
        data_type |-> IF series_info # Absent THEN series_info.data_type ELSE "level",
        max_value |-> MaxAbs(item.values),
        region |-> ExtractRegion(item.series_id),
        semantic_tags |-> GetSemanticTags(item.series_id, name),
        name |-> name]

\* ChartGroup(series_data, title, show_yoy)
ChartGroup(series_data, title, show_yoy) ==
    [series_data |-> series_data, title |-> title, show_yoy |-> show_yoy]

\* _determine_show_yoy(items, default)
DetermineShowYoy(items, default) ==
    LET data_types == {items[i].data_type : i \in 1..Len(items)}
    IN IF items = <<>> THEN default
       ELSE IF data_types = {"rate"} THEN FALSE
       ELSE IF data_types = {"index"} THEN TRUE
       ELSE IF data_types \cap {"growth_rate", "spread"} # {} THEN FALSE
       ELSE default

\* _make_group(items, default_show_yoy)
MakeGroup(items, default_show_yoy) ==
    ChartGroup([i \in 1..Len(items) |-> items[i].data], "",
               DetermineShowYoy(items, default_show_yoy))

\* highest / lowest <= SCALE_THRESHOLD, on peaks that are whole numbers
RatioWithinThreshold(highest, lowest) == highest <= SCALE_THRESHOLD * lowest

\* _scale_compatible(items)
ScaleCompatible(items) ==
    LET max_vals == {items[i].max_value : i \in {j \in 1..Len(items) : items[j].max_value > 0}}
        positives == Cardinality({j \in 1..Len(items) : items[j].max_value > 0})
        highest == CHOOSE h \in max_vals : \A o \in max_vals : o <= h
        lowest == CHOOSE l \in max_vals : \A o \in max_vals : l <= o
    IN IF Len(items) <= 1 THEN TRUE
       ELSE IF positives <= 1 THEN TRUE
       ELSE IF lowest = 0 THEN FALSE
       ELSE RatioWithinThreshold(highest, lowest)

\* id in items_by_id
HasId(items, id) == \E i \in 1..Len(items) : items[i].series_id = id

\* items_by_id[id]: a dict comprehension, so the last item of that id
ById(items, id) ==
    items[CHOOSE i \in 1..Len(items) :
            /\ items[i].series_id = id
            /\ \A j \in (i + 1)..Len(items) : items[j].series_id # id]

\* EXPLICIT_PAIRS.get(series_id)
ExplicitPartner(series_id) ==
    IF \E i \in 1..Len(EXPLICIT_PAIRS) : EXPLICIT_PAIRS[i][1] = series_id
    THEN EXPLICIT_PAIRS[CHOOSE i \in 1..Len(EXPLICIT_PAIRS) : EXPLICIT_PAIRS[i][1] = series_id][2]
    ELSE None

\* NATIONAL_COUNTERPARTS.get(suffix)
NationalOf(suffix) ==
    NATIONAL_COUNTERPARTS[CHOOSE i \in 1..Len(NATIONAL_COUNTERPARTS) :
                            NATIONAL_COUNTERPARTS[i][1] = suffix][2]

\* _get_national_counterpart(series_id)
GetNationalCounterpart(series_id) ==
    IF StatePatternMatch(series_id, "UR") THEN NationalOf("UR")
    ELSE IF StatePatternMatch(series_id, "NA") THEN NationalOf("NA")
    ELSE None

\* one iteration of the pairing loops of passes 1 and 2: st holds the locals
\* assigned and groups
TryPair(items, item, partner_id, st) ==
    IF item.series_id \in st.assigned THEN st
    ELSE IF partner_id # None /\ HasId(items, partner_id) /\ partner_id \notin st.assigned
    THEN LET pair == <<item, ById(items, partner_id)>>
         IN IF ScaleCompatible(pair)
            THEN [assigned |-> st.assigned \cup {item.series_id, partner_id},
                  groups |-> Append(st.groups, pair)]
            ELSE st
    ELSE st

RECURSIVE ExplicitPass(_, _, _)
\* _apply_semantic_pairing, pass 1: explicit pairs
ExplicitPass(items, i, st) ==
    IF i > Len(items) THEN st
    ELSE ExplicitPass(items, i + 1,
                      TryPair(items, items[i], ExplicitPartner(items[i].series_id), st))

RECURSIVE NationalPass(_, _, _)
\* _apply_semantic_pairing, pass 2: state + national counterpart
NationalPass(items, i, st) ==
    IF i > Len(items) THEN st
    ELSE NationalPass(items, i + 1,
                      TryPair(items, items[i], GetNationalCounterpart(items[i].series_id), st))

RECURSIVE PullShared(_, _, _, _)
\* _group_by_shared_tags, inner loop: st holds assigned and the growing group
PullShared(items, item, j, st) ==
    IF j > Len(items) THEN st
    ELSE LET other == items[j]
         IN IF other.series_id \in st.assigned THEN PullShared(items, item, j + 1, st)
            ELSE IF item.semantic_tags \cap other.semantic_tags # {}
            THEN PullShared(items, item, j + 1,
                            [assigned |-> st.assigned \cup {other.series_id},
                             group |-> Append(st.group, other)])
            ELSE PullShared(items, item, j + 1, st)

RECURSIVE SharedTagLoop(_, _, _, _)
\* _group_by_shared_tags, outer loop
SharedTagLoop(items, i, assigned, groups) ==
    IF i > Len(items) THEN groups
    ELSE LET item == items[i]
         IN IF item.series_id \in assigned \/ item.semantic_tags = {}
            THEN SharedTagLoop(items, i + 1, assigned, groups)
            ELSE LET st == PullShared(items, item, 1,
                                      [assigned |-> assigned \cup {item.series_id},
                                       group |-> <<item>>])
                 IN SharedTagLoop(items, i + 1, st.assigned,
                                  IF Len(st.group) > 1 THEN Append(groups, st.group)
                                  ELSE groups)

\* _group_by_shared_tags(items)
GroupBySharedTags(items) == SharedTagLoop(items, 1, {}, <<>>)

\* _chunk_list that keeps the first chunk only
ChunkListFirstOnly(items, max_size) ==
    IF items = <<>> THEN <<>> ELSE <<SubSeq(items, 1, MinOf(Len(items), max_size))>>

RECURSIVE ChunkList(_, _)
\* _chunk_list(items, max_size)
ChunkList(items, max_size) ==
    IF items = <<>> THEN <<>>
    ELSE IF Len(items) <= max_size THEN <<items>>
    ELSE <<SubSeq(items, 1, max_size)>>
         \o ChunkList(SubSeq(items, max_size + 1, Len(items)), max_size)

RECURSIVE TagPass(_, _, _)
\* _apply_semantic_pairing, pass 3: the loop over tag_groups
TagPass(tag_groups, k, st) ==
    IF k > Len(tag_groups) THEN st
    ELSE LET tag_group == tag_groups[k]
         IN IF Len(tag_group) > 1 /\ ScaleCompatible(tag_group)
            THEN TagPass(tag_groups, k + 1,
                         [assigned |-> st.assigned
                                       \cup {tag_group[i].series_id : i \in 1..Len(tag_group)},
                          groups |-> st.groups \o ChunkList(tag_group, MAX_TRACES)])
            ELSE TagPass(tag_groups, k + 1, st)

RECURSIVE SelectUnassigned(_, _)
\* [item for item in items if item.series_id not in assigned]
SelectUnassigned(items, assigned) ==
    IF items = <<>> THEN <<>>
    ELSE (IF Head(items).series_id \in assigned THEN <<>> ELSE <<Head(items)>>)
         \o SelectUnassigned(Tail(items), assigned)

\* _apply_semantic_pairing(items, default_show_yoy)
ApplySemanticPairing(items, default_show_yoy) ==
    IF Len(items) <= 1 THEN <<MakeGroup(items, default_show_yoy)>>
    ELSE LET st1 == ExplicitPass(items, 1, [assigned |-> {}, groups |-> <<>>])
             st2 == NationalPass(items, 1, st1)
             unassigned == SelectUnassigned(items, st2.assigned)
             st3 == IF Len(unassigned) > 1
                    THEN TagPass(GroupBySharedTags(unassigned), 1, st2)
                    ELSE st2
             solos == SelectUnassigned(items, st3.assigned)
             groups == st3.groups \o [i \in 1..Len(solos) |-> <<solos[i]>>]
         IN [g \in 1..Len(groups) |-> MakeGroup(groups[g], default_show_yoy)]

RECURSIVE KeysInOrder(_, _)
\* the keys of a defaultdict(list) filled by one pass over the items:
\* insertion order, each key once
KeysInOrder(items, field) ==
    IF items = <<>> THEN <<>>
    ELSE LET init == KeysInOrder(SubSeq(items, 1, Len(items) - 1), field)
             k == items[Len(items)][field]
         IN IF k \in Range(init) THEN init ELSE Append(init, k)

RECURSIVE Bucket(_, _, _)
\* the list a defaultdict(list) holds under key k
Bucket(items, field, k) ==
    IF items = <<>> THEN <<>>
    ELSE (IF Head(items)[field] = k THEN <<Head(items)>> ELSE <<>>)
         \o Bucket(Tail(items), field, k)

RECURSIVE Flatten(_)
\* result.extend(groups) for each element in turn
Flatten(lists) ==
    IF lists = <<>> THEN <<>> ELSE Head(lists) \o Flatten(Tail(lists))

\* _group_within_frequency(items, default_show_yoy)
GroupWithinFrequency(items, default_show_yoy) ==
    LET unit_cats == KeysInOrder(items, "unit_category")
    IN Flatten([u \in 1..Len(unit_cats) |->
                  ApplySemanticPairing(Bucket(items, "unit_category", unit_cats[u]),
                                       default_show_yoy)])

\* _known_pair_title(series_ids)
KnownPairTitle(series_ids) ==
    IF /\ Len(series_ids) = 2
       /\ \E i \in 1..Len(PAIR_TITLES) : PAIR_TITLES[i][1] = Range(series_ids)
    THEN PAIR_TITLES[CHOOSE i \in 1..Len(PAIR_TITLES) :
                        PAIR_TITLES[i][1] = Range(series_ids)][2]
    ELSE None

\* _STATE_NAMES.get(state_code, state_code)
StateName(state_code) ==
    IF \E i \in 1..Len(STATE_NAMES) : STATE_NAMES[i][1] = state_code
    THEN STATE_NAMES[CHOOSE i \in 1..Len(STATE_NAMES) : STATE_NAMES[i][1] = state_code][2]
    ELSE state_code

\* _state_national_title(series_ids, series_data), for two distinct ids
StateNationalTitle(series_ids) ==
    LET TitleAt(i) ==
            LET sid == series_ids[i]
                other == series_ids[3 - i]
            IN IF StatePatternMatch(sid, "UR") /\ other = "UNRATE"
               THEN StateName(SubSeq(sid, 1, 2)) \o " vs National Unemployment Rate"
               ELSE IF StatePatternMatch(sid, "NA") /\ other = "PAYEMS"
               THEN StateName(SubSeq(sid, 1, 2)) \o " vs National Nonfarm Payrolls"
               ELSE None
    IN IF Len(series_ids) # 2 THEN None
       ELSE IF TitleAt(1) # None THEN TitleAt(1)
       ELSE TitleAt(2)

\* the name _generate_title shows for one member, shortened beyond 40 characters
ShortName(item) ==
    LET si == RegistryGetSeries(item.series_id)
        name == IF si # Absent THEN si.name ELSE InfoGet(item.info, "title", item.series_id)
    IN IF Len(name) > 40 THEN SubSeq(name, 1, 37) \o "..." ELSE name

\* _generate_title(series_data)
GenerateTitle(series_data) ==
    LET series_ids == [i \in 1..Len(series_data) |-> series_data[i].series_id]
    IN IF Len(series_data) <= 1 THEN ""
       ELSE IF KnownPairTitle(series_ids) \notin {None, ""} THEN KnownPairTitle(series_ids)
       ELSE IF StateNationalTitle(series_ids) \notin {None, ""}
       THEN StateNationalTitle(series_ids)
       ELSE IF Len(series_data) > 2
       THEN ShortName(series_data[1]) \o " vs " \o ShortName(series_data[2])
            \o " (+" \o NumStr(Len(series_data) - 2, 1) \o " more)"
       ELSE ShortName(series_data[1]) \o " vs " \o ShortName(series_data[2])

\* data_lookup[sid] of _apply_explicit_groups: the last fetched tuple of that id
DataLookup(series_data, sid) ==
    series_data[CHOOSE i \in 1..Len(series_data) :
                  /\ series_data[i].series_id = sid
                  /\ \A j \in (i + 1)..Len(series_data) : series_data[j].series_id # sid]

RECURSIVE GroupData(_, _)
\* _apply_explicit_groups: group_data of one group_spec
GroupData(series_data, group_series_ids) ==
    IF group_series_ids = <<>> THEN <<>>
    ELSE (IF \E i \in 1..Len(series_data) : series_data[i].series_id = Head(group_series_ids)
          THEN <<DataLookup(series_data, Head(group_series_ids))>>
          ELSE <<>>)
         \o GroupData(series_data, Tail(group_series_ids))

RECURSIVE ExplicitLoop(_, _, _)
\* _apply_explicit_groups: the loop over routing_result.chart_groups
ExplicitLoop(series_data, routing_result, k) ==
    IF k > Len(routing_result.chart_groups) THEN <<>>
    ELSE LET group_spec == routing_result.chart_groups[k]
             group_data == GroupData(series_data, group_spec.series)
         IN (IF group_data # <<>>
             THEN <<ChartGroup(group_data,
                               IF group_spec.title = None THEN "" ELSE group_spec.title,
                               IF group_spec.show_yoy = None THEN routing_result.show_yoy
                               ELSE group_spec.show_yoy = "True")>>
             ELSE <<>>)
            \o ExplicitLoop(series_data, routing_result, k + 1)

RECURSIVE SoloCharts(_, _, _)
\* _apply_explicit_groups: a chart of its own for each series no group_spec names
SoloCharts(series_data, assigned_ids, show_yoy) ==
    IF series_data = <<>> THEN <<>>
    ELSE (IF Head(series_data).series_id \in assigned_ids THEN <<>>
          ELSE <<ChartGroup(<<Head(series_data)>>, "", show_yoy)>>)
         \o SoloCharts(Tail(series_data), assigned_ids, show_yoy)

\* _apply_explicit_groups(series_data, routing_result)
ApplyExplicitGroups(series_data, routing_result) ==
    LET fetched == {series_data[i].series_id : i \in 1..Len(series_data)}
        named == UNION {Range(routing_result.chart_groups[k].series) :
                          k \in 1..Len(routing_result.chart_groups)}
    IN ExplicitLoop(series_data, routing_result, 1)
       \o SoloCharts(series_data, fetched \cap named, routing_result.show_yoy)

\* auto_group_series, phases 1 to 7
AutoGroup(series_data, routing_result) ==
    LET classified == [i \in 1..Len(series_data) |-> ClassifySeries(series_data[i])]
        freqs == KeysInOrder(classified, "frequency")
        result_groups ==
            Flatten([f \in 1..Len(freqs) |->
                       GroupWithinFrequency(Bucket(classified, "frequency", freqs[f]),
                                            routing_result.show_yoy)])
    IN [g \in 1..Len(result_groups) |->
          IF Len(result_groups[g].series_data) > 1 /\ result_groups[g].title = ""
          THEN [result_groups[g] EXCEPT !.title = GenerateTitle(result_groups[g].series_data)]
          ELSE result_groups[g]]

\* auto_group_series(series_data, routing_result)
AutoGroupSeries(series_data, routing_result) ==
    IF series_data = <<>> THEN <<>>
    ELSE IF /\ routing_result.chart_groups # <<>>
            /\ ApplyExplicitGroups(series_data, routing_result) # <<>>
    THEN ApplyExplicitGroups(series_data, routing_result)
    ELSE IF routing_result.combine_chart /\ Len(series_data) > 1
    THEN <<ChartGroup(series_data, "", routing_result.show_yoy)>>
    ELSE IF Len(series_data) <= 1
    THEN [i \in 1..Len(series_data) |-> ChartGroup(<<series_data[i]>>, "", routing_result.show_yoy)]
    ELSE AutoGroup(series_data, routing_result)

\* a fetched series (series_id, dates, values, info); info as the FRED client
\* returns it, None for a key it does not carry
Fetched(series_id, values, frequency, units, title) ==
    [series_id |-> series_id, values |-> values,
     info |-> [frequency |-> frequency, units |-> units, title |-> title, name |-> None]]

\* the fetched series the inputs are drawn from: registry series, state series
\* the registry does not hold, and one series whose values are all zero
FetchedSeries ==
    << Fetched("UNRATE", <<4, 14, 4>>, None, None, None),
       Fetched("U6RATE", <<7, 22, 8>>, None, None, None),
       Fetched("NYUR", <<4, 16, 4>>, "Monthly", "Percent", "Unemployment Rate in New York"),
       Fetched("CAUR", <<0, 0, 0>>, "Monthly", "Percent", "Unemployment Rate in California"),
       Fetched("TXUR", <<4, 13, 4>>, "Monthly", "Percent", "Unemployment Rate in Texas"),
       Fetched("FLUR", <<3, 14, 3>>, "Monthly", "Percent", "Unemployment Rate in Florida"),
       Fetched("CPIAUCSL", <<258, 310>>, None, None, None),
       Fetched("CPILFESL", <<266, 320>>, None, None, None),
       Fetched("GDPC1", <<19000, 22000>>, None, None, None),
       Fetched("RSAFS", <<-5, 700>>, None, None, None),
       Fetched("PAYEMS", <<152000, 130000, 158000>>, None, None, None),
       Fetched("NYNA", <<9700, 8000, 9800>>, "Monthly", "Thousands of Persons",
               "All Employees: Total Nonfarm in New York") >>

MaxSeries == 5

RECURSIVE PickFetched(_, _)
\* the fetched series at the positions S, in fetch order
PickFetched(S, i) ==
    IF i > Len(FetchedSeries) THEN <<>>
    ELSE (IF i \in S THEN <<FetchedSeries[i]>> ELSE <<>>) \o PickFetched(S, i + 1)

\* chart_groups of a plan: none, one group across frequency and unit, one
\* group of five members with an id that was not fetched
ChartGroupSpecs ==
    { <<>>,
      << [series |-> <<"UNRATE", "GDPC1">>, title |-> "Jobs and output", show_yoy |-> None] >>,
      << [series |-> <<"NYUR", "CAUR", "TXUR", "FLUR", "U6RATE", "ILUR">>,
          title |-> None, show_yoy |-> "True"] >> }

GroupingInputs ==
    [series_data : {PickFetched(S, 1) :
                      S \in {T \in SUBSET (1..Len(FetchedSeries)) : Cardinality(T) <= MaxSeries}},
     routing_result : [chart_groups : ChartGroupSpecs,
                       combine_chart : BOOLEAN,
                       show_yoy : BOOLEAN]]

InitGrouping ==
    /\ RouterIdle
    /\ env = [gemini |-> FALSE, oldllm |-> FALSE, health |-> FALSE]
    /\ vin \in GroupingInputs
    /\ vout = <<>>
    /\ vpc = "in"

\* groups = auto_group_series(series_data, routing_result)
ApplyAutoGroupSeries ==
    /\ vpc = "in"
    /\ vout' = AutoGroupSeries(vin.series_data, vin.routing_result)
    /\ vpc' = "out"
    /\ UNCHANGED <<vin, rvars>>

NextGrouping == ApplyAutoGroupSeries

SpecGrouping == InitGrouping /\ [][NextGrouping]_vars

\* the members of the group at position g of the returned list, classified
Members(g) == [i \in 1..Len(vout[g].series_data) |-> ClassifySeries(vout[g].series_data[i])]

\* C18: every returned ChartGroup has members of one frequency and holds no
\* percent member next to a dollars member, whichever path produced it.
C18_GroupsShareFrequencyAndUnits ==
    vpc = "out" =>
        \A g \in 1..Len(vout) :
            LET m == Members(g)
            IN /\ \A a, b \in 1..Len(m) : m[a].frequency = m[b].frequency
               /\ ~(\E a, b \in 1..Len(m) :
                        m[a].unit_category = "percent" /\ m[b].unit_category = "dollars")

\* C19: no returned ChartGroup has more than four members, for any number of
\* fetched series and any routing flags.
C19_AtMostFourMembers ==
    vpc = "out" => \A g \in 1..Len(vout) : Len(vout[g].series_data) <= MAX_TRACES

\* the call took the auto-grouping path (phases 1 to 7)
AutoGrouped ==
    /\ vin.routing_result.chart_groups = <<>>
    /\ ~vin.routing_result.combine_chart
    /\ Len(vin.series_data) > 1

\* C20: in every multi-member group the auto-grouping forms, the larger peak
\* of any two members is at most ten times the smaller, a zero peak included.
C20_PeaksWithinTenfold ==
    (vpc = "out" /\ AutoGrouped) =>
        \A g \in 1..Len(vout) :
            LET m == Members(g)
            IN \A a, b \in 1..Len(m) :
                  m[a].max_value >= m[b].max_value =>
                      m[a].max_value <= 10 * m[b].max_value

\* the data kinds of the members of the group at position g
MemberKinds(g) == {Members(g)[i].data_type : i \in 1..Len(Members(g))}

\* C21: every returned ChartGroup has show_yoy false when all members are
\* rates, true when all are indexes, false when any is a growth rate or a
\* spread, and the routing result's show_yoy otherwise.
C21_ShowYoyByDataKind ==
    vpc = "out" =>
        \A g \in 1..Len(vout) :
            vout[g].show_yoy =
                (IF MemberKinds(g) = {"rate"} THEN FALSE
                 ELSE IF MemberKinds(g) = {"index"} THEN TRUE
                 ELSE IF MemberKinds(g) \cap {"growth_rate", "spread"} # {} THEN FALSE
                 ELSE vin.routing_result.show_yoy)

\* the ids of the members of the group at position g, in order
GroupIds(g) == [j \in 1..Len(vout[g].series_data) |-> vout[g].series_data[j].series_id]

\* the ids that were fetched
FetchedIds == {vin.series_data[i].series_id : i \in 1..Len(vin.series_data)}

\* how many places of the returned groups hold the series id
Places(id) ==
    Cardinality(UNION {{<<g, j>> : j \in {k \in 1..Len(vout[g].series_data) :
                                              vout[g].series_data[k].series_id = id}} :
                       g \in 1..Len(vout)})

RECURSIVE FetchedOf(_)
\* the ids of a declared subset that were fetched, in declared order
FetchedOf(ids) ==
    IF ids = <<>> THEN <<>>
    ELSE (IF Head(ids) \in FetchedIds THEN <<Head(ids)>> ELSE <<>>) \o FetchedOf(Tail(ids))

\* C22: no fetched series is dropped. With explicit chart_groups every
\* declared subset that has fetched members is a group of exactly those
\* members, and every fetched id no subset names is a solo group; on the
\* other paths every fetched series is in exactly one returned group.
C22_NoSeriesDropped ==
    vpc = "out" =>
        /\ \A id \in FetchedIds : Places(id) >= 1
        /\ vin.routing_result.chart_groups # <<>> =>
              LET specs == vin.routing_result.chart_groups
                  named == UNION {Range(specs[k].series) : k \in 1..Len(specs)}
              IN /\ \A k \in 1..Len(specs) :
                        FetchedOf(specs[k].series) # <<>> =>
                            \E g \in 1..Len(vout) : GroupIds(g) = FetchedOf(specs[k].series)
                 /\ \A id \in FetchedIds \ named :
                        /\ Places(id) = 1
                        /\ \E g \in 1..Len(vout) : GroupIds(g) = <<id>>
        /\ vin.routing_result.chart_groups = <<>> =>
              \A id \in FetchedIds : Places(id) = 1

\* an explicit group was declared with a fetched and an unfetched member, and
\* another fetched series is named by no group
C22_Witness ==
    /\ vpc = "out"
    /\ vin.routing_result.chart_groups # <<>>
    /\ \E g \in 1..Len(vout) : Len(vout[g].series_data) >= 2
    /\ \E k \in 1..Len(vin.routing_result.chart_groups) :
          /\ Range(vin.routing_result.chart_groups[k].series) \ FetchedIds # {}
          /\ Range(vin.routing_result.chart_groups[k].series) \cap FetchedIds # {}
    /\ \E g \in 1..Len(vout) : GroupIds(g) = <<"PAYEMS">>

-----------------------------------------------------------------------------
(* apply_transforms: processing/transforms.py *)

\* the SERIES_DB entries that set yoy_name / yoy_unit: <<id, yoy_name, yoy_unit>>
SERIES_YOY ==
    << <<"CPIAUCSL", "CPI Inflation Rate (Headline)", "% Change YoY">>,
       <<"CPILFESL", "Core CPI Inflation Rate", "% Change YoY">>,
       <<"PCEPILFE", "Core PCE Inflation Rate", "% Change YoY">>,
       <<"PCEPI", "PCE Inflation Rate", "% Change YoY">>,
       <<"CUSR0000SAH1", "Shelter Inflation Rate", "% Change YoY">>,
       <<"CUSR0000SEHA", "Rent Inflation Rate", "% Change YoY">>,
       <<"CES0500000003", "Wage Growth Rate", "% Change YoY">> >>

\* series_info.yoy_name, None when the entry does not set it
YoyName(series_id) ==
    IF \E i \in 1..Len(SERIES_YOY) : SERIES_YOY[i][1] = series_id
    THEN SERIES_YOY[CHOOSE i \in 1..Len(SERIES_YOY) : SERIES_YOY[i][1] = series_id][2]
    ELSE None

\* series_info.yoy_unit, None when the entry does not set it
YoyUnit(series_id) ==
    IF \E i \in 1..Len(SERIES_YOY) : SERIES_YOY[i][1] = series_id
    THEN SERIES_YOY[CHOOSE i \in 1..Len(SERIES_YOY) : SERIES_YOY[i][1] = series_id][3]
    ELSE None

\* series_info.show_absolute_change: set for PAYEMS only
ShowAbsoluteChange(series_id) == series_id \in {"PAYEMS"}

\* 12 if frequency.lower() == 'monthly' else 4 if ... == 'quarterly' else 1
PeriodsOf(frequency) ==
    IF Lower(frequency) = "monthly" THEN 12
    ELSE IF Lower(frequency) = "quarterly" THEN 4
    ELSE 1

\* apply_transforms(series_id, dates, values, info, show_yoy, frequency):
\* the returned triple, transformed telling the YoY return from the
\* return of the original lists, or the exception that left it
ApplyTransforms(series_id, dates, values, info, show_yoy, frequency) ==
    LET yoy == CalculateYoy(dates, values, PeriodsOf(frequency))
        original == [raised |-> FALSE, transformed |-> FALSE,
                     dates |-> dates, values |-> values, info |-> info]
    IN IF ~ShouldApplyYoy(series_id, show_yoy) THEN original
       ELSE IF yoy.raised
       THEN [raised |-> TRUE, transformed |-> FALSE, dates |-> <<>>, values |-> <<>>,
             info |-> info]
       ELSE IF yoy.dates # <<>> /\ yoy.values # <<>>
       THEN [raised |-> FALSE, transformed |-> TRUE, dates |-> yoy.dates, values |-> yoy.values,
             info |-> IF series_id \in SeriesIds /\ YoyName(series_id) \notin {None, ""}
                      THEN [info EXCEPT !.name = YoyName(series_id),
                                        !.unit = IF YoyUnit(series_id) \in {None, ""}
                                                 THEN "% Change YoY"
                                                 ELSE YoyUnit(series_id)]
                      ELSE info]
       ELSE original

\* a quarterly series of eight quarters from 2021
QuarterlyDates == [i \in 1..8 |-> MonthString(2021, 1, 3 * (i - 1))]

\* the fetched data apply_transforms is given
FetchedData ==
    {[dates |-> MonthlyGapSeries(2020, 1, 0).dates, values |-> MonthlyGapSeries(2020, 1, 0).values],
     [dates |-> MonthlyGapSeries(2019, 3, 7).dates, values |-> MonthlyGapSeries(2019, 3, 7).values],
     [dates |-> QuarterlyDates, values |-> [i \in 1..8 |-> 20000 + 150 * i]],
     [dates |-> YearlyDates, values |-> [i \in 1..14 |-> IF i = 3 THEN 0 ELSE i]],
     [dates |-> [YearlyDates EXCEPT ![5] = "junk"], values |-> [i \in 1..14 |-> i]],
     [dates |-> <<"2020-01-01", "2021-01-01">>, values |-> <<1, 2>>]}

ApplyTransformsInputs ==
    [series_id : {"PAYEMS", "UNRATE", "CPIAUCSL", "GDPC1", "CES0500000003", "RSAFS", "T10Y2Y", "NYNA"},
     data : FetchedData,
     info : {[name |-> None, unit |-> None]},
     show_yoy : {"True", "False", None},
     frequency : {"monthly", "Monthly", "quarterly", "annual"}]

InitApplyTransforms ==
    /\ RouterIdle
    /\ env = [gemini |-> FALSE, oldllm |-> FALSE, health |-> FALSE]
    /\ vin \in ApplyTransformsInputs
    /\ vout = [raised |-> FALSE, transformed |-> FALSE, dates |-> <<>>, values |-> <<>>,
               info |-> [name |-> None, unit |-> None]]
    /\ vpc = "in"

\* apply_transforms(series_id, dates, values, info, show_yoy, frequency)
CallApplyTransforms ==
    /\ vpc = "in"
    /\ vout' = ApplyTransforms(vin.series_id, vin.data.dates, vin.data.values, vin.info,
                               vin.show_yoy, vin.frequency)
    /\ vpc' = "out"
    /\ UNCHANGED <<vin, rvars>>

NextApplyTransforms == CallApplyTransforms

SpecApplyTransforms == InitApplyTransforms /\ [][NextApplyTransforms]_vars

\* the year-over-year absolute differences of the input
AbsoluteExpected ==
    CalculateAbsoluteChange(vin.data.dates, vin.data.values, PeriodsOf(vin.frequency))

\* C23: when YoY is requested for a level series the registry marks with
\* show_absolute_change, apply_transforms returns the year-over-year absolute
\* differences, not the percent changes.
C23_AbsoluteChangeForMarkedLevels ==
    (/\ vpc = "out"
     /\ vin.show_yoy = "True"
     /\ ShowAbsoluteChange(vin.series_id)
     /\ ~AbsoluteExpected.raised
     /\ AbsoluteExpected.dates # <<>>) =>
        /\ vout.transformed
        /\ vout.dates = AbsoluteExpected.dates
        /\ vout.values = AbsoluteExpected.values

-----------------------------------------------------------------------------
(* The two caches over time: LRUCache.get / LRUCache.set and
   LLMRouter._get_cached / _set_cache *)

\* clock ticks in one hour: config.routing_cache_ttl and _routing_cache_ttl
TicksPerHour == 2

\* the last instant of the clock
MaxTime == 3

\* max_size of the LRUCache instance under test
SmallMaxSize == 3

\* what a cache read returns: the stored value, or None
CacheHit(value) == [hit |-> TRUE, value |-> value]

CacheMiss == [hit |-> FALSE, value |-> 0]

\* CacheEntry(value, expires_at, created_at, ttl) stored under key
CacheEntry(key, value, ttl, now) ==
    [key |-> key, value |-> value, expires_at |-> now + ttl, created_at |-> now, ttl |-> ttl]

\* some random.random() in [0, 1) makes
\* time_remaining < stampede_beta * ttl * 0.1 * (-math.log(random.random() + 0.001)):
\* the factor is largest at 0, -log(0.001) = 6.907755...
EarlyExpiryPossible(entry, now) ==
    entry.ttl > 0 /\ (entry.expires_at - now) * 10000000 < 6907755 * entry.ttl

\* LRUCache.get(key) at time now; early tells whether the stampede protection
\* draws a number that reports the entry missing. Mutant: expiry tested one
\* tick late
LRUGetLate(c, key, now, early) ==
    IF ~CacheHas(c, key) THEN [cache |-> c, ret |-> CacheMiss]
    ELSE LET entry == c[CacheIndex(c, key)]
         IN IF now > entry.expires_at + 1
            THEN [cache |-> CacheDelete(c, key), ret |-> CacheMiss]
            ELSE IF early /\ EarlyExpiryPossible(entry, now)
            THEN [cache |-> c, ret |-> CacheMiss]
            ELSE [cache |-> MoveToEnd(c, key), ret |-> CacheHit(entry.value)]

\* LRUCache.get(key) at time now; early tells whether the stampede protection
\* draws a number that reports the entry missing
LRUGet(c, key, now, early) ==
    IF ~CacheHas(c, key) THEN [cache |-> c, ret |-> CacheMiss]
    ELSE LET entry == c[CacheIndex(c, key)]
         IN IF now > entry.expires_at
            THEN [cache |-> CacheDelete(c, key), ret |-> CacheMiss]
            ELSE IF early /\ EarlyExpiryPossible(entry, now)
            THEN [cache |-> c, ret |-> CacheMiss]
            ELSE [cache |-> MoveToEnd(c, key), ret |-> CacheHit(entry.value)]

\* LRUCache.set(key, value, ttl) at time now
LRUSet(c, key, value, ttl, now, max_size) ==
    LET e == EvictOldest(c, max_size)
        entry == CacheEntry(key, value, ttl, now)
    IN IF CacheHas(e, key)
       THEN [e EXCEPT ![CacheIndex(e, key)] = entry]
       ELSE Append(e, entry)

\* LLMRouter._get_cached(cache_key) at time now
LLMGetCached(c, key, now) ==
    IF CacheHas(c, key)
    THEN LET e == c[CacheIndex(c, key)]
         IN IF now - e.timestamp < TicksPerHour
            THEN [cache |-> c, ret |-> CacheHit(e.value)]
            ELSE [cache |-> CacheDelete(c, key), ret |-> CacheMiss]
    ELSE [cache |-> c, ret |-> CacheMiss]

\* position of entry i in sorted(_routing_cache.keys(), key=timestamp): the
\* sort is stable, so equal timestamps keep dict order
SortedRank(c, i) ==
    Cardinality({j \in 1..Len(c) :
                    \/ c[j].timestamp < c[i].timestamp
                    \/ (c[j].timestamp = c[i].timestamp /\ j < i)})

\* LLMRouter._set_cache(cache_key, result) at time now
LLMSetCacheAt(c, key, value, now) ==
    LET entry == [key |-> key, value |-> value, timestamp |-> now]
        stored == IF CacheHas(c, key)
                  THEN [c EXCEPT ![CacheIndex(c, key)] = entry]
                  ELSE Append(c, entry)
        ranked == [i \in 1..Len(stored) |->
                     [key |-> stored[i].key, value |-> stored[i].value,
                      timestamp |-> stored[i].timestamp,
                      rank |-> SortedRank(stored, i)]]
        kept == SelectSeq(ranked, LAMBDA e : e.rank >= LLMEvictCount)
    IN IF Len(stored) > LLMCacheLimit
       THEN [i \in 1..Len(kept) |->
               [key |-> kept[i].key, value |-> kept[i].value, timestamp |-> kept[i].timestamp]]
       ELSE stored

\* cache keys the calls use: LRUCache keys, and for the decision cache one
\* stored key and two new ones
LRUKeys == 1..(SmallMaxSize + 1)

LLMKeys == {1, LLMCacheLimit, LLMCacheLimit + 1}

\* _routing_cache holding n decisions written at distinct earlier instants,
\* the oldest first
StoredDecisions(n) == [i \in 1..n |-> [key |-> i, value |-> i - n - 1, timestamp |-> i - n - 1]]

\* which cache the calls go to, and what the decision cache holds at first
CacheInputs ==
    {[cache |-> "lru", stored |-> 0],
     [cache |-> "llm", stored |-> 0],
     [cache |-> "llm", stored |-> LLMCacheLimit - 1]}

\* how long before now the entry under key was written, -1 when none is stored
AgeOf(c, key, stamp, now) ==
    IF CacheHas(c, key) THEN now - stamp[CacheIndex(c, key)] ELSE -1

\* the caches, the clock, and the last call with what it returned; age is how
\* old the entry a read looked up was
InitCaches ==
    /\ RouterIdle
    /\ env = [gemini |-> FALSE, oldllm |-> FALSE, health |-> FALSE]
    /\ vin \in CacheInputs
    /\ vout = [lru |-> <<>>, llm |-> StoredDecisions(vin.stored), now |-> 0,
               op |-> "init", key |-> 0, ret |-> CacheMiss, age |-> -1]
    /\ vpc = "run"

\* time passes
Tick ==
    /\ vpc = "run"
    /\ vout.now < MaxTime
    /\ vout' = [vout EXCEPT !.now = vout.now + 1, !.op = "tick", !.key = 0, !.ret = CacheMiss,
                       !.age = -1]
    /\ UNCHANGED <<vin, vpc, rvars>>

\* LRUCache.set(key, value, config.routing_cache_ttl); the value written is
\* the time of the write
CallLRUSet ==
    /\ vpc = "run"
    /\ vin.cache = "lru"
    /\ \E key \in LRUKeys :
          vout' = [vout EXCEPT
                     !.lru = LRUSet(vout.lru, key, vout.now, TicksPerHour, vout.now, SmallMaxSize),
                     !.op = "lru_set", !.key = key, !.ret = CacheMiss, !.age = -1]
    /\ UNCHANGED <<vin, vpc, rvars>>

\* LRUCache.get(key)
CallLRUGet ==
    /\ vpc = "run"
    /\ vin.cache = "lru"
    /\ \E key \in LRUKeys : \E early \in BOOLEAN :
          LET r == LRUGet(vout.lru, key, vout.now, early)
          IN vout' = [vout EXCEPT !.lru = r.cache, !.op = "lru_get", !.key = key, !.ret = r.ret,
                                  !.age = AgeOf(vout.lru, key,
                                                [i \in 1..Len(vout.lru) |-> vout.lru[i].created_at],
                                                vout.now)]
    /\ UNCHANGED <<vin, vpc, rvars>>

\* LLMRouter._set_cache(cache_key, result)
CallLLMSetCache ==
    /\ vpc = "run"
    /\ vin.cache = "llm"
    /\ \E key \in LLMKeys :
          vout' = [vout EXCEPT
                     !.llm = LLMSetCacheAt(vout.llm, key, vout.now, vout.now),
                     !.op = "llm_set", !.key = key, !.ret = CacheMiss, !.age = -1]
    /\ UNCHANGED <<vin, vpc, rvars>>

\* LLMRouter._get_cached(cache_key)
CallLLMGetCached ==
    /\ vpc = "run"
    /\ vin.cache = "llm"
    /\ \E key \in LLMKeys :
          LET r == LLMGetCached(vout.llm, key, vout.now)
          IN vout' = [vout EXCEPT !.llm = r.cache, !.op = "llm_get", !.key = key, !.ret = r.ret,
                                  !.age = AgeOf(vout.llm, key,
                                                [i \in 1..Len(vout.llm) |-> vout.llm[i].timestamp],
                                                vout.now)]
    /\ UNCHANGED <<vin, vpc, rvars>>

NextCaches == Tick \/ CallLRUSet \/ CallLRUGet \/ CallLLMSetCache \/ CallLLMGetCached

SpecCaches == InitCaches /\ [][NextCaches]_vars

\* the entries of cache c that cache d no longer holds, the key just written
\* left aside
Evicted(c, d, key) == {i \in 1..Len(c) : c[i].key # key /\ ~CacheHas(d, c[i].key)}

\* the entries of cache c that cache d still holds, the key just written
\* left aside
Kept(c, d, key) == {i \in 1..Len(c) : c[i].key # key /\ CacheHas(d, c[i].key)}

\* C24: both caches stay within their size (max_size, 300), and whenever a
\* set evicts, every entry it removes was written no later than every entry it
\* keeps, whatever was read in between.
C24_BoundedOldestWrittenEvicted ==
    [][/\ Len(vout'.lru) <= SmallMaxSize
       /\ Len(vout'.llm) <= LLMCacheLimit
       /\ vout'.op = "lru_set" =>
             \A r \in Evicted(vout.lru, vout'.lru, vout'.key) :
                \A k \in Kept(vout.lru, vout'.lru, vout'.key) :
                   vout.lru[r].created_at <= vout.lru[k].created_at
       /\ vout'.op = "llm_set" =>
             \A r \in Evicted(vout.llm, vout'.llm, vout'.key) :
                \A k \in Kept(vout.llm, vout'.llm, vout'.key) :
                   vout.llm[r].timestamp <= vout.llm[k].timestamp]_vars

\* the entry stored under key in cache c
EntryOf(c, key) == c[CacheIndex(c, key)]

\* C27: neither cache returns an entry past its TTL. LRUCache.get of a stored
\* key returns nothing and removes the entry once now > expires_at, and what
\* it does return is the stored value of an entry with now <= expires_at; an
\* early miss before that leaves the entry stored. LLMRouter._get_cached
\* returns nothing and removes the entry once its age reaches one hour, and
\* returns the stored decision before that.
C27_NoEntryPastTTL ==
    [][/\ (vout'.op = "lru_get" /\ CacheHas(vout.lru, vout'.key)) =>
            LET e == EntryOf(vout.lru, vout'.key)
            IN IF vout.now > e.expires_at
               THEN ~vout'.ret.hit /\ ~CacheHas(vout'.lru, vout'.key)
               ELSE /\ CacheHas(vout'.lru, vout'.key)
                    /\ EntryOf(vout'.lru, vout'.key) = e
                    /\ vout'.ret.hit => vout'.ret.value = e.value
       /\ (vout'.op = "llm_get" /\ CacheHas(vout.llm, vout'.key)) =>
            LET e == EntryOf(vout.llm, vout'.key)
            IN IF vout.now - e.timestamp >= TicksPerHour
               THEN ~vout'.ret.hit /\ ~CacheHas(vout'.llm, vout'.key)
               ELSE vout'.ret = CacheHit(e.value) /\ vout'.llm = vout.llm]_vars

\* a read found an entry written more than one hour earlier, returned nothing
\* and removed it
C27_Witness ==
    /\ vout.op = "lru_get"
    /\ vout.age > TicksPerHour
    /\ ~vout.ret.hit
    /\ ~CacheHas(vout.lru, vout.key)

(***************************************************************************)
(* Plan catalog: src/routing/plan_catalog.py                               *)
(***************************************************************************)

\* TOPIC_BUCKETS, in the order the dict literal lists them
TOPIC_BUCKETS ==
    <<
     [name |-> "EMPLOYMENT_DEMOGRAPHICS", priority |-> 10,
      keywords |-> <<"black unemployment", "black workers", "black employment", "black labor",
                    "hispanic unemployment", "hispanic workers", "hispanic employment", "latino",
                    "latina", "women unemployment", "women employment", "women labor", "women workers",
                    "men unemployment", "men employment", "youth unemployment", "teen unemployment",
                    "young workers", "asian unemployment", "asian workers", "asian employment",
                    "veteran", "veterans", "immigrant", "foreign born", "native born",
                    "white unemployment", "white workers", "white employment", "by race", "by gender",
                    "gender gap", "racial gap", "unemployment by", "employment by">>],
     [name |-> "EMPLOYMENT_SECTORS", priority |-> 9,
      keywords |-> <<"manufacturing employment", "manufacturing jobs", "factory jobs",
                    "construction jobs", "construction employment", "construction workers",
                    "tech employment", "tech jobs", "tech sector", "healthcare jobs",
                    "healthcare employment", "hospital", "restaurant", "food service", "hospitality",
                    "government employment", "government jobs", "federal jobs", "retail employment",
                    "retail jobs", "retail workers", "finance jobs", "banking jobs",
                    "financial sector employment", "education jobs", "education employment",
                    "transportation", "mining", "professional services", "leisure and hospitality",
                    "information sector">>],
     [name |-> "EMPLOYMENT", priority |-> 5,
      keywords |-> <<"job", "jobs", "employment", "labor", "unemployment", "hiring", "payroll",
                    "workforce", "jobless", "claims", "jolts", "openings", "participation", "prime age",
                    "underemployment", "sahm", "labor force", "nonfarm", "beveridge", "quits", "hires",
                    "layoffs", "employed", "epop">>],
     [name |-> "INFLATION", priority |-> 5,
      keywords |-> <<"inflation", "cpi", "pce", "prices", "price", "cost of living", "food price",
                    "shelter", "rent inflation", "energy price", "gas price", "gasoline", "deflation",
                    "disinflation", "core inflation", "headline inflation", "breakeven",
                    "inflation expectations", "inflation target", "sticky">>],
     [name |-> "GDP", priority |-> 5,
      keywords |-> <<"gdp", "economic growth", "output", "productivity", "industrial production",
                    "durable goods", "gdpnow", "real gdp", "nominal gdp", "potential gdp",
                    "gdp components", "gdp quarterly", "private demand", "final sales">>],
     [name |-> "HOUSING", priority |-> 5,
      keywords |-> <<"housing", "home price", "mortgage", "housing starts", "building permits",
                    "affordability", "rent", "rents", "rental", "new home sales", "existing home sales",
                    "case-shiller", "case shiller", "home value", "zillow", "homebuilder",
                    "housing supply", "housing market">>],
     [name |-> "FED_RATES", priority |-> 5,
      keywords |-> <<"fed", "federal reserve", "interest rate", "rates", "yield curve", "treasury",
                    "dot plot", "fomc", "monetary policy", "rate cut", "rate hike", "fed funds",
                    "powell", "tightening", "easing", "quantitative", "balance sheet", "spread",
                    "10 year", "2 year">>],
     [name |-> "CONSUMER", priority |-> 5,
      keywords |-> <<"consumer", "spending", "retail sales", "sentiment", "confidence", "savings",
                    "personal income", "disposable", "credit", "debt", "household", "consumption">>],
     [name |-> "WAGES_INCOME", priority |-> 6,
      keywords |-> <<"wage", "wages", "earnings", "income", "pay", "compensation", "real wages",
                    "wage growth", "wages vs inflation", "employment cost", "minimum wage",
                    "median income">>],
     [name |-> "TRADE_MARKETS", priority |-> 5,
      keywords |-> <<"trade", "export", "import", "tariff", "deficit", "surplus", "balance",
                    "stock market", "stocks", "s&p", "nasdaq", "dow", "gold", "oil", "commodity",
                    "dollar", "forex", "exchange rate", "vix", "trading partner">>],
     [name |-> "RECESSION", priority |-> 7,
      keywords |-> <<"recession", "downturn", "contraction", "leading indicator", "recession risk",
                    "recession probability", "headed for", "slowdown", "soft landing", "hard landing">>],
     [name |-> "SOCIAL", priority |-> 5,
      keywords |-> <<"poverty", "inequality", "gini", "food insecurity", "bankruptcy", "homelessness",
                    "welfare", "snap", "social security", "disability">>],
     [name |-> "ECONOMY_OVERVIEW", priority |-> 3,
      keywords |-> <<"economy", "economic", "overview", "how is", "outlook", "forecast", "state of",
                    "what's happening">>],
     [name |-> "INTERNATIONAL", priority |-> 6,
      keywords |-> <<"eurozone", "europe", "uk", "china", "japan", "germany", "canada", "india", "brazil",
                    "mexico", "korea", "australia", "us vs", "us compared", "compared to">>],
     [name |-> "STATES", priority |-> 8,
      keywords |-> <<>>]
    >>

\* STATE_CODES: two-letter code, state name
STATE_CODES ==
    <<<<"AL", "Alabama">>, <<"AK", "Alaska">>, <<"AZ", "Arizona">>, <<"AR", "Arkansas">>,
      <<"CA", "California">>, <<"CO", "Colorado">>, <<"CT", "Connecticut">>,
      <<"DE", "Delaware">>, <<"FL", "Florida">>, <<"GA", "Georgia">>, <<"HI", "Hawaii">>,
      <<"ID", "Idaho">>, <<"IL", "Illinois">>, <<"IN", "Indiana">>, <<"IA", "Iowa">>,
      <<"KS", "Kansas">>, <<"KY", "Kentucky">>, <<"LA", "Louisiana">>, <<"ME", "Maine">>,
      <<"MD", "Maryland">>, <<"MA", "Massachusetts">>, <<"MI", "Michigan">>,
      <<"MN", "Minnesota">>, <<"MS", "Mississippi">>, <<"MO", "Missouri">>,
      <<"MT", "Montana">>, <<"NE", "Nebraska">>, <<"NV", "Nevada">>,
      <<"NH", "New Hampshire">>, <<"NJ", "New Jersey">>, <<"NM", "New Mexico">>,
      <<"NY", "New York">>, <<"NC", "North Carolina">>, <<"ND", "North Dakota">>,
      <<"OH", "Ohio">>, <<"OK", "Oklahoma">>, <<"OR", "Oregon">>, <<"PA", "Pennsylvania">>,
      <<"RI", "Rhode Island">>, <<"SC", "South Carolina">>, <<"SD", "South Dakota">>,
      <<"TN", "Tennessee">>, <<"TX", "Texas">>, <<"UT", "Utah">>, <<"VT", "Vermont">>,
      <<"VA", "Virginia">>, <<"WA", "Washington">>, <<"WV", "West Virginia">>,
      <<"WI", "Wisconsin">>, <<"WY", "Wyoming">>, <<"DC", "District of Columbia">>>>

\* STATE_NAMES_LOWER: the state names in lower case
STATE_NAMES_LOWER == {Lower(STATE_CODES[i][2]) : i \in 1..Len(STATE_CODES)}

\* the words of key_lower.split() that have two characters
TwoLetterWords(s) ==
    {SubSeq(s, i, i + 1) : i \in {j \in 1..(Len(s) - 1) :
        /\ ~IsSpace(CharAt(s, j)) /\ ~IsSpace(CharAt(s, j + 1))
        /\ (j = 1 \/ IsSpace(CharAt(s, j - 1)))
        /\ (j + 1 = Len(s) \/ IsSpace(CharAt(s, j + 2)))}}

\* PlanCatalog._is_state_plan(key_lower)
IsStatePlan(key_lower) ==
    \/ \E state_name \in STATE_NAMES_LOWER : Contains(key_lower, state_name)
    \/ \E word \in TwoLetterWords(key_lower) :
          \E i \in 1..Len(STATE_CODES) :
             UpperChar(CharAt(word, 1)) \o UpperChar(CharAt(word, 2)) = STATE_CODES[i][1]

\* how many buckets sorted(..., key=priority, reverse=True) puts before bucket
\* i: the sort is stable, so buckets of equal priority keep dict order
BucketRank(i) ==
    Cardinality({j \in 1..Len(TOPIC_BUCKETS) :
                    \/ TOPIC_BUCKETS[j].priority > TOPIC_BUCKETS[i].priority
                    \/ (TOPIC_BUCKETS[j].priority = TOPIC_BUCKETS[i].priority /\ j < i)})

\* mutant: the buckets tried in dict order
UnsortedBuckets == TOPIC_BUCKETS

\* sorted_buckets of _classify_plans: highest priority first
SortedBuckets ==
    [r \in 1..Len(TOPIC_BUCKETS) |->
        TOPIC_BUCKETS[CHOOSE i \in 1..Len(TOPIC_BUCKETS) : BucketRank(i) = r - 1]]

\* whether some keyword of the bucket is in key_lower
KeywordIn(bucket_def, key_lower) ==
    \E k \in 1..Len(bucket_def.keywords) : Contains(key_lower, bucket_def.keywords[k])

RECURSIVE FirstBucket(_, _, _)
\* the loop over sorted_buckets: the name of the first bucket, STATES
\* skipped, with a keyword in key_lower; "" when none has one
FirstBucket(key_lower, sorted_buckets, i) ==
    IF i > Len(sorted_buckets) THEN ""
    ELSE IF sorted_buckets[i].name # "STATES" /\ KeywordIn(sorted_buckets[i], key_lower)
    THEN sorted_buckets[i].name
    ELSE FirstBucket(key_lower, sorted_buckets, i + 1)

\* the bucket one plan key is appended to; "" stands for the unclassified list
BucketOfKey(plan_key) ==
    LET key_lower == Lower(plan_key)
    IN IF IsStatePlan(key_lower) THEN "STATES"
       ELSE FirstBucket(key_lower, SortedBuckets, 1)

\* PlanCatalog._classify_plans(all_plans): all_plans is the sequence of the
\* dict's keys; the result lists the non-empty buckets in dict order, and the
\* unclassified keys come last in ECONOMY_OVERVIEW
ClassifyPlans(all_plans) ==
    LET appended == [i \in 1..Len(all_plans) |->
                       [key |-> all_plans[i], bucket |-> BucketOfKey(all_plans[i])]]
        keysOf(name) == LET own == SelectSeq(appended, LAMBDA a : a.bucket = name)
                        IN [i \in 1..Len(own) |-> own[i].key]
        filled == [b \in 1..Len(TOPIC_BUCKETS) |->
                     [name |-> TOPIC_BUCKETS[b].name,
                      keys |-> IF TOPIC_BUCKETS[b].name = "ECONOMY_OVERVIEW"
                               THEN keysOf("ECONOMY_OVERVIEW") \o keysOf("")
                               ELSE keysOf(TOPIC_BUCKETS[b].name)]]
    IN SelectSeq(filled, LAMBDA b : b.keys # <<>>)

\* the longest dict of plans classified
MaxPlans == 3

\* plan keys the registry may hold
PlanKeyPool ==
    {"black unemployment", "wages vs inflation", "california economy", "TX jobs",
     "jobs in tech", "m2 money supply", "recession jobs", "consumer prices", "gdp"}

\* dicts of up to MaxPlans distinct plan keys, in insertion order
CatalogInputs ==
    {s \in UNION {[1..n -> PlanKeyPool] : n \in 0..MaxPlans} :
        \A i, j \in 1..Len(s) : i # j => s[i] # s[j]}

InitCatalog ==
    /\ RouterIdle
    /\ env = [gemini |-> FALSE, oldllm |-> FALSE, health |-> FALSE]
    /\ vin \in CatalogInputs
    /\ vout = <<>>
    /\ vpc = "in"

\* PlanCatalog.build: self._buckets = self._classify_plans(all_plans)
CallClassifyPlans ==
    /\ vpc = "in"
    /\ vout' = ClassifyPlans(vin)
    /\ vpc' = "out"
    /\ UNCHANGED <<vin, rvars>>

NextCatalog == CallClassifyPlans

SpecCatalog == InitCatalog /\ [][NextCatalog]_vars

\* the places a plan key has in the classified buckets: bucket name, position
PlacesOfKey(buckets, key) ==
    UNION {{<<buckets[b].name, j>> : j \in {n \in 1..Len(buckets[b].keys) : buckets[b].keys[n] = key}} :
           b \in 1..Len(buckets)}

\* the buckets other than STATES with a keyword contained in the key
MatchingBuckets(key) ==
    {b \in 1..Len(TOPIC_BUCKETS) :
        TOPIC_BUCKETS[b].name # "STATES" /\ KeywordIn(TOPIC_BUCKETS[b], Lower(key))}

\* C25: classification puts every plan key in exactly one bucket: STATES for
\* a key matching the state pattern; otherwise a bucket that has a keyword
\* contained in the key and whose priority no other such bucket exceeds;
\* ECONOMY_OVERVIEW for a key that contains no keyword.
C25_ExactlyOneBucketByPriority ==
    vpc = "out" /\ vin \in CatalogInputs =>
        \A n \in 1..Len(vin) :
           LET key == vin[n]
               places == PlacesOfKey(vout, key)
           IN /\ Cardinality(places) = 1
              /\ \A p \in places :
                    IF IsStatePlan(Lower(key)) THEN p[1] = "STATES"
                    ELSE IF MatchingBuckets(key) = {} THEN p[1] = "ECONOMY_OVERVIEW"
                    ELSE \E b \in MatchingBuckets(key) :
                            /\ TOPIC_BUCKETS[b].name = p[1]
                            /\ \A c \in MatchingBuckets(key) :
                                  TOPIC_BUCKETS[c].priority <= TOPIC_BUCKETS[b].priority

\* a dict holding a state plan, a key that matches the demographic and the
\* generic employment bucket, and a key without any keyword has been classified
C25_Witness ==
    /\ vpc = "out"
    /\ vin = <<"black unemployment", "m2 money supply", "california economy">>
    /\ vout = <<[name |-> "EMPLOYMENT_DEMOGRAPHICS", keys |-> <<"black unemployment">>],
                [name |-> "ECONOMY_OVERVIEW", keys |-> <<"m2 money supply">>],
                [name |-> "STATES", keys |-> <<"california economy">>]>>

(***************************************************************************)
(* The LLM stage and a plan key the registry does not hold                 *)
(***************************************************************************)

\* the decision under resolution names a plan key that get_plan does not find
UnknownPlanKey == llm_result.plan_key # "" /\ GetPlan(llm_result.plan_key) = None

\* C26: when the decision's plan key does not resolve, the router makes one
\* fuzzy match on the plan key before anything else; a plan found is returned
\* as an LLM-stage result (llm_v3_fuzzy) that goes on to enrichment, never to
\* the fuzzy-match-on-query stage; otherwise the decision's custom series are
\* used, and only without those is the LLM stage left for the fallback.
C26_FuzzyOnPlanKeyFirst ==
    [][/\ (pc = "resolve" /\ UnknownPlanKey) =>
            /\ calls' = calls \o <<Entry("llm", "get_plan"), Entry("llm", "fuzzy_match")>>
            /\ \/ /\ \E f \in PlanKeys :
                        result' = [PlanToResult(plans[f], "llm_v3_fuzzy") EXCEPT
                                      !.is_comparison = llm_result.is_comparison]
                  /\ stage' = "llm"
                  /\ pc' = "enrich"
               \/ /\ llm_result.custom_series # <<>>
                  /\ result'.route_type = "llm_v3_custom"
                  /\ result'.series = llm_result.custom_series
                  /\ stage' = "llm"
                  /\ pc' = "enrich"
               \/ /\ llm_result.custom_series = <<>>
                  /\ result' = result
                  /\ pc' = "fuzzy"
       /\ (pc' = "fuzzy" /\ pc # "fuzzy") => pc \in {"llm", "resolve"}
       /\ (pc = "fuzzy" /\ pc' # "fuzzy") =>
             ~(stage = "llm" /\ result.route_type = "llm_v3_fuzzy"
               /\ Entry("llm", "fuzzy_match") \in {calls[i] : i \in 1..Len(calls)})]_vars

\* the fuzzy match on an unresolved plan key found a plan, which left the LLM
\* stage as its result while the decision also carried custom series
C26_Witness ==
    /\ pc = "enrich"
    /\ stage = "llm"
    /\ UnknownPlanKey
    /\ llm_result.custom_series # <<>>
    /\ result.route_type = "llm_v3_fuzzy"
    /\ calls[Len(calls)] = Entry("llm", "fuzzy_match")
    /\ ~(Entry("fuzzy", "fuzzy_match") \in {calls[i] : i \in 1..Len(calls)})

(***************************************************************************)
(* Two route() calls with the same query text running side by side.  Each  *)
(* call has its own locals; cache_manager's routing cache, the registry's  *)
(* plans and the decision cache of llm_router.py are shared.  A step is    *)
(* one stage of QueryRouter.route.                                         *)
(***************************************************************************)

Callers == {1, 2}

\* the locals of one route() call
CallFrame ==
    [pc |-> "cache", result |-> NoResult, sref |-> NoRef, stage |-> "none",
     llm_result |-> NoDecision, ret |-> NoRet]

\* what the collaborators answer, to both calls alike: the Gemini decision
\* (answered is false for None or an exception), difflib's choice, the
\* enrichment dict or an exception, and special_router.check's result
TwoCallInputs ==
    {[qry |-> q, answered |-> d # NoDecision, decision |-> d, fuzzy |-> f,
      enrich_raises |-> e = <<>>, enrichment |-> e, special |-> s] :
        q \in Queries, d \in LLMDecisions, f \in FuzzyOutcomes,
        e \in {<<>>} \cup {<<x>> : x \in Enrichments},
        s \in {<<>>} \cup {<<r>> : r \in SpecialResults}}

\* both calls have entered route() and passed _ensure_catalog; the health
\* check module and the Claude fallback are not installed
InitTwoCalls ==
    /\ plans = QUERY_MAP
    /\ cache = <<>>
    /\ catalog_built = TRUE
    /\ pc = "idle" /\ query = "" /\ result = NoResult /\ sref = NoRef /\ stage = "none"
    /\ llm_result = NoDecision /\ calls = <<>> /\ ret = NoRet /\ nreq = 0
    /\ env \in [gemini : BOOLEAN, oldllm : {FALSE}, health : {FALSE}]
    /\ vin \in TwoCallInputs
    /\ vout = [f |-> [p \in Callers |-> CallFrame], llmc |-> <<>>, api_calls |-> 0,
               last |-> <<>>]
    /\ vpc = "run"

\* what the two-call actions leave alone
TwoCallsFixed ==
    UNCHANGED <<vin, vpc, catalog_built, env, pc, query, result, sref, stage,
                llm_result, calls, ret, nreq>>

\* plan k's list object has become series: every result, returned result and
\* written plan_dict that holds this list sees the change
RealiasFrames(v, k, series) ==
    [v EXCEPT
        !.f = [p \in Callers |->
                 IF v.f[p].sref = k
                 THEN [v.f[p] EXCEPT
                         !.result.series = IF v.f[p].result # NoResult THEN series ELSE @,
                         !.ret.val.series = IF v.f[p].ret.kind = "result" THEN series ELSE @]
                 ELSE v.f[p]],
        !.last = [i \in 1..Len(v.last) |->
                    IF v.last[i].sref = k THEN [v.last[i] EXCEPT !.series = series]
                    ELSE v.last[i]]]

\* STEP 1: cached = cache_manager.get_routing(query)
TCacheLookup(p) ==
    /\ vout.f[p].pc = "cache"
    /\ LET key == RoutingKey(vin.qry)
       IN \/ /\ ~CacheHas(cache, key)
             /\ vout' = [vout EXCEPT !.f[p].pc = "exact"]
             /\ UNCHANGED cache
          \/ /\ CacheHas(cache, key)
             /\ \/ \* now > entry.expires_at
                   /\ cache' = CacheDelete(cache, key)
                   /\ vout' = [vout EXCEPT !.f[p].pc = "exact"]
                \/ \* probabilistic early expiration
                   /\ vout' = [vout EXCEPT !.f[p].pc = "exact"]
                   /\ UNCHANGED cache
                \/ \* hit
                   /\ cache' = MoveToEnd(cache, key)
                   /\ vout' = [vout EXCEPT
                                 !.f[p].ret = [kind |-> "result",
                                               val |-> CachedResult(cache[CacheIndex(cache, key)].value)],
                                 !.f[p].sref = cache[CacheIndex(cache, key)].value.sref,
                                 !.f[p].pc = "done"]
    /\ UNCHANGED plans
    /\ TwoCallsFixed

\* STEP 2: plan = registry.get_plan(query)
TExactMatch(p) ==
    /\ vout.f[p].pc = "exact"
    /\ ~env.health     \* STEP 2b is skipped: special_router._health_check is None
    /\ vout' = IF GetPlan(vin.qry) # None
               THEN [vout EXCEPT
                       !.f[p].result = PlanToResult(plans[GetPlan(vin.qry)], "exact"),
                       !.f[p].sref = GetPlan(vin.qry),
                       !.f[p].stage = "exact",
                       !.f[p].pc = "enrich"]
               ELSE [vout EXCEPT !.f[p].pc = "llm"]
    /\ UNCHANGED <<plans, cache>>
    /\ TwoCallsFixed

\* STEP 3: llm_result = self._llm_router.route(query): the decision cache is
\* read first
TLLMRoute(p) ==
    /\ vout.f[p].pc = "llm"
    /\ LET key == LLMCacheKey(vin.qry)
       IN vout' =
            IF ~env.gemini THEN [vout EXCEPT !.f[p].pc = "fuzzy"]
            ELSE IF LLMCacheHas(vout.llmc, key)
            THEN [vout EXCEPT !.f[p].llm_result = LLMCacheValue(vout.llmc, key),
                              !.f[p].pc = "resolve"]
            ELSE [vout EXCEPT !.f[p].pc = "gemini"]
    /\ UNCHANGED <<plans, cache>>
    /\ TwoCallsFixed

\* the Gemini request of LLMRouter.route ends: a decision is stored in the
\* decision cache and returned; None or an exception leaves the LLM stage
TGeminiAnswer(p) ==
    /\ vout.f[p].pc = "gemini"
    /\ vout' = IF ~vin.answered
               THEN [vout EXCEPT !.api_calls = @ + 1, !.f[p].pc = "fuzzy"]
               ELSE [vout EXCEPT !.api_calls = @ + 1,
                                 !.llmc = LLMSetCache(@, LLMCacheKey(vin.qry), vin.decision),
                                 !.f[p].llm_result = vin.decision,
                                 !.f[p].pc = "resolve"]
    /\ UNCHANGED <<plans, cache>>
    /\ TwoCallsFixed

\* result = self._resolve_llm_result(llm_result, query); if result and result.series: ...
TResolveLLM(p) ==
    /\ vout.f[p].pc = "resolve"
    /\ LET d == vout.f[p].llm_result
           k == GetPlan(d.plan_key)
           merge == d.is_comparison /\ d.secondary_plan_key # ""
           k2 == GetPlan(d.secondary_plan_key)
           custom ==
               IF d.custom_series # <<>>
               THEN [vout EXCEPT
                       !.f[p].result = [RoutingResult(d.custom_series, "llm_v3_custom") EXCEPT
                                           !.show_yoy = d.show_yoy,
                                           !.is_comparison = d.is_comparison,
                                           !.explanation = d.explanation],
                       !.f[p].sref = NoRef,
                       !.f[p].stage = "llm",
                       !.f[p].pc = "enrich"]
               ELSE [vout EXCEPT !.f[p].pc = "fuzzy"]
       IN IF d.plan_key # "" /\ k # None
          THEN LET series == IF merge /\ k2 # None
                             THEN MergeSeries(plans[k].series, plans[k2].series)
                             ELSE plans[k].series
                   base == PlanToResult(plans[k], "llm_v3")
                   seen == RealiasFrames(vout, k, series)
               IN /\ plans' = [plans EXCEPT ![k].series = series]
                  /\ cache' = Realias(cache, k, series)
                  /\ vout' = [seen EXCEPT
                                !.f[p].result = [base EXCEPT
                                    !.series = series,
                                    !.show_yoy = IF d.show_yoy THEN TRUE ELSE @,
                                    !.is_comparison = d.is_comparison \/ (merge /\ k2 # None)],
                                !.f[p].sref = k,
                                !.f[p].stage = "llm",
                                !.f[p].pc = IF series # <<>> THEN "enrich" ELSE "fuzzy"]
          ELSE /\ UNCHANGED <<plans, cache>>
               /\ IF d.plan_key # "" /\ vin.fuzzy # None
                  THEN vout' = [vout EXCEPT
                                  !.f[p].result = [PlanToResult(plans[vin.fuzzy], "llm_v3_fuzzy") EXCEPT
                                                      !.is_comparison = d.is_comparison],
                                  !.f[p].sref = vin.fuzzy,
                                  !.f[p].stage = "llm",
                                  !.f[p].pc = IF plans[vin.fuzzy].series # <<>>
                                              THEN "enrich" ELSE "fuzzy"]
                  ELSE vout' = custom
    /\ TwoCallsFixed

\* STEP 3b: plan = registry.fuzzy_match(query, threshold=0.7)
TFuzzyFallback(p) ==
    /\ vout.f[p].pc = "fuzzy"
    /\ vout' = IF vin.fuzzy # None
               THEN [vout EXCEPT
                       !.f[p].result = PlanToResult(plans[vin.fuzzy], "fuzzy_fallback"),
                       !.f[p].sref = vin.fuzzy,
                       !.f[p].stage = "fuzzy",
                       !.f[p].pc = "enrich"]
               ELSE [vout EXCEPT !.f[p].pc = "special"]
    /\ UNCHANGED <<plans, cache>>
    /\ TwoCallsFixed

\* STEP 3d: special_result = special_router.check(query), else "No match";
\* STEP 3c before it returns None at once, _old_llm_fallback being None
TSpecialCheck(p) ==
    /\ vout.f[p].pc = "special"
    /\ ~env.oldllm
    /\ vout' = IF vin.special # <<>> /\ vin.special[1].matched /\ vin.special[1].series # <<>>
               THEN [vout EXCEPT
                       !.f[p].result = SpecialToRoutingResult(vin.special[1]),
                       !.f[p].sref = NoRef,
                       !.f[p].stage = "special",
                       !.f[p].pc = "validate"]
               ELSE [vout EXCEPT
                       !.f[p].ret = [kind |-> "result", val |-> NoMatchResult],
                       !.f[p].sref = NoRef,
                       !.f[p].pc = "done"]
    /\ UNCHANGED <<plans, cache>>
    /\ TwoCallsFixed

\* STEP 4: result = self._enrich_special(result, query[, llm_result]); only
\* the LLM stage calls it inside a try
TEnrich(p) ==
    /\ vout.f[p].pc = "enrich"
    /\ vout' = IF vin.enrich_raises
               THEN IF vout.f[p].stage = "llm"
                    THEN [vout EXCEPT !.f[p].pc = "fuzzy"]
                    ELSE [vout EXCEPT
                            !.f[p].ret = [kind |-> "exception", val |-> NoResult],
                            !.f[p].pc = "done"]
               ELSE [vout EXCEPT
                       !.f[p].result = EnrichSpecial(@, vin.enrichment[1]),
                       !.f[p].pc = "validate"]
    /\ UNCHANGED <<plans, cache>>
    /\ TwoCallsFixed

\* STEP 5: result = self._validate(result, query)
TValidate(p) ==
    /\ vout.f[p].pc = "validate"
    /\ LET f == vout.f[p]
           v == Validate(f.result, vin.qry)
       IN vout' = [vout EXCEPT
                     !.f[p].result = v,
                     !.f[p].sref = IF v.route_type = f.result.route_type THEN @ ELSE NoRef,
                     !.f[p].pc = "cachewrite"]
    /\ UNCHANGED <<plans, cache>>
    /\ TwoCallsFixed

\* self._cache_result(query, result); return result
TCacheWrite(p) ==
    /\ vout.f[p].pc = "cachewrite"
    /\ LET f == vout.f[p]
       IN /\ cache' = SetRouting(cache, vin.qry, PlanDict(f.result, f.sref))
          /\ vout' = [vout EXCEPT
                        !.f[p].ret = [kind |-> "result", val |-> f.result],
                        !.f[p].pc = "done",
                        !.last = <<PlanDict(f.result, f.sref)>>]
    /\ UNCHANGED plans
    /\ TwoCallsFixed

NextTwoCalls ==
    \E p \in Callers :
       \/ TCacheLookup(p)
       \/ TExactMatch(p)
       \/ TLLMRoute(p)
       \/ TGeminiAnswer(p)
       \/ TResolveLLM(p)
       \/ TFuzzyFallback(p)
       \/ TSpecialCheck(p)
       \/ TEnrich(p)
       \/ TValidate(p)
       \/ TCacheWrite(p)

SpecTwoCalls == InitTwoCalls /\ [][NextTwoCalls]_vars

\* both calls have returned
BothReturned == vpc = "run" /\ \A p \in Callers : vout.f[p].pc = "done"

\* the routing cache entries stored under the query's key
EntriesFor(qry) == {i \in 1..Len(cache) : cache[i].key = RoutingKey(qry)}

\* C28: two calls with the same uncached query text, interleaved in any way
\* and given the same answers by the collaborators: both return a
\* RoutingResult and none raises, both return the same series list, and the
\* routing cache then holds exactly one entry for the query, the plan_dict
\* written last.
C28_TwoCallsAgree ==
    BothReturned =>
        /\ \A p \in Callers : vout.f[p].ret.kind = "result"
        /\ vout.f[1].ret.val.series = vout.f[2].ret.val.series
        /\ Cardinality(EntriesFor(vin.qry)) = 1
        /\ vout.last # <<>>
        /\ \A i \in EntriesFor(vin.qry) : cache[i].value = vout.last[1]

(***************************************************************************)
(* One override per result, the demographic table before the sector table  *)
(* before the state table                                                  *)
(***************************************************************************)

\* the entries of each table whose keyword the lowered query matches, the way
\* _validate tests it: demographic keywords as words, the others as substrings
DemographicMatches(q) ==
    {i \in 1..Len(DEMOGRAPHIC_OVERRIDES) : WordSearch(q, DEMOGRAPHIC_OVERRIDES[i][1])}

SectorMatches(q) ==
    {i \in 1..Len(SECTOR_OVERRIDES) : Contains(q, SECTOR_OVERRIDES[i][1])}

StateMatches(q) ==
    {i \in 1..Len(STATE_OVERRIDES) : Contains(q, STATE_OVERRIDES[i][1])}

\* the query has keywords of at least two of the three tables
SeveralCategories(q) ==
    Cardinality({c \in {"demographic", "sector", "state"} :
                    \/ c = "demographic" /\ DemographicMatches(q) # {}
                    \/ c = "sector" /\ SectorMatches(q) # {}
                    \/ c = "state" /\ StateMatches(q) # {}}) >= 2

\* C29: validation applies at most one override, the demographic table first,
\* then the sector table, then the state table: for a query with keywords of
\* several tables and a result whose series are all generic national ones, the
\* returned series are exactly those of the first matching entry of the first
\* matching table, nothing of another table and no national series appended,
\* and the route type is marked validated once.
C29_OneOverrideInFixedOrder ==
    (vpc = "out" /\ vin.res.series # <<>>
        /\ Range(vin.res.series) \subseteq GENERIC_NATIONAL
        /\ SeveralCategories(Lower(vin.qry))) =>
        LET q == Lower(vin.qry)
        IN /\ vout.series = IF DemographicMatches(q) # {}
                            THEN DEMOGRAPHIC_OVERRIDES[Min(DemographicMatches(q))][2]
                            ELSE SECTOR_OVERRIDES[Min(SectorMatches(q))][2]
           /\ vout.route_type = vin.res.route_type \o "_validated"

\* "black unemployment in texas" with the national unemployment rate alone
\* has been validated and came back with the Black series
C29_Witness ==
    /\ vpc = "out"
    /\ vin.qry = "black unemployment in texas"
    /\ vin.res.series = <<"UNRATE">>
    /\ vout.series = <<"LNS14000006", "LNS12300006", "LNS11300006">>

\* caller p got its result from a stage after the cache lookup and caller q,
\* arriving after p's cache write, got it from the routing cache
RoundTrip(p, q) ==
    /\ vpc = "run"
    /\ vout.f[p].pc = "done" /\ vout.f[q].pc = "done"
    /\ vout.f[p].ret.kind = "result" /\ vout.f[q].ret.kind = "result"
    /\ ~vout.f[p].ret.val.cached /\ vout.f[p].ret.val.route_type # "none"
    /\ vout.f[q].ret.val.cached

\* C30: a route(q) that hits the routing cache after route(q) returned R from
\* a stage of its own returns R's series, show_yoy, combine_chart,
\* chart_groups, is_comparison and explanation, with route_type 'cached' and
\* without any enrichment payload, whether or not R carried one.
C30_CacheRoundTrip ==
    \A p, q \in Callers :
       RoundTrip(p, q) =>
          LET R == vout.f[p].ret.val
              C == vout.f[q].ret.val
          IN /\ C.series = R.series
             /\ C.show_yoy = R.show_yoy
             /\ C.combine_chart = R.combine_chart
             /\ C.chart_groups = R.chart_groups
             /\ C.is_comparison = R.is_comparison
             /\ C.explanation = R.explanation
             /\ C.route_type = "cached"
             /\ C.fed_guidance = None /\ C.fed_sep_html = None
             /\ C.recession_html = None /\ C.cape_html = None

\* the first caller returned an overridden, combined result that carries Fed
\* guidance, and the second caller then hit the cache
C30_Witness ==
    /\ RoundTrip(1, 2)
    /\ vout.f[1].ret.val.fed_guidance # None
    /\ vout.f[1].ret.val.combine_chart
    /\ vout.f[1].ret.val.explanation # ""
    /\ vout.f[2].ret.val.series = vout.f[1].ret.val.series

====
